---- MODULE Spec2Model ----
(***************************************************************************)
(* The overlay store of the live-streaming front end                       *)
(* (frontend/src/hooks/useOverlays.js) together with the HTTP client it    *)
(* calls (frontend/src/services/api.js), the remote CRUD store the client  *)
(* talks to, and the drag controller of the video player                   *)
(* (frontend/src/components/VideoPlayer.js), which feeds pointer moves     *)
(* into the store's update.  Beside the store: the pure functions          *)
(* handleError and validateOverlay, the retry loop of the HTTP client, and *)
(* the landing view and stream state of App (frontend/src/App.js).         *)
(*                                                                         *)
(* The browser runs one event loop.  Every action below is one task of     *)
(* that loop: a call of a store operation up to its first await, the       *)
(* remote store serving one request, or the continuation that runs when a  *)
(* response reaches the client (up to its next await or its return).       *)
(* A handler that awaits fetchOverlays() resumes in the microtasks of the  *)
(* task in which the GET settled, so the end of fetchOverlays and the      *)
(* statements after the await form one action.                             *)
(***************************************************************************)
EXTENDS Integers, Sequences, FiniteSets, TLC

VARIABLES
    overlays,   \* useOverlays: useState([])      the local collection (an array)
    loading,    \* useOverlays: useState(false)
    error,      \* useOverlays: useState(null)
    mounted,    \* the hook's initial-load effect has run
    calls,      \* the store operations issued so far, each with its HTTP request in flight
    ops,        \* number of store operations issued
    server,     \* the remote store's collection
    nextId,     \* the id the remote store assigns next
    clean,      \* history: no mutation since the last successful fetchAll was issued
    last,       \* history: the last task that ran
    budget,     \* modelling bound: store operations a behaviour may issue
    draggedOverlay, \* VideoPlayer: useState(null)          the id being dragged
    dragOffset,     \* VideoPlayer: useState({x: 0, y: 0})
    isDragging,     \* VideoPlayer: useState(false)
    given,          \* the arguments a pure function is applied to
    returned,       \* what it returned
    maxRetries,     \* apiUtils.retry: the parameter maxRetries
    retryI,         \* apiUtils.retry: the loop counter i
    lastError,      \* apiUtils.retry: let lastError
    invocations,    \* apiUtils.retry: the outcomes of the calls of apiCall so far
    retryPhase,     \* apiUtils.retry: where the call stands
    retryOut,       \* apiUtils.retry: what it returned or threw
    retryTimer,     \* apiUtils.retry: the timeout it awaits, in units of delay
    rtspUrl,        \* App: useState('')
    streamUrl,      \* App: useState('')
    isStreaming,    \* App: useState(false)
    streamLoading,  \* App: useState(false)     (loading)
    streamError,    \* App: useState('')        (error)
    showLanding,    \* App: useState(true)
    appMounted,     \* App: the status effect has run
    streamCalls,    \* App: the stream requests issued so far
    streamOps,      \* number of stream requests issued
    remoteStream    \* the stream service: a stream is active

\* the pure functions, applied on their own
pure == <<given, returned>>
\* a call of apiUtils.retry
retrying == <<maxRetries, retryI, lastError, invocations, retryPhase, retryOut, retryTimer>>
\* the state of App and of the stream service
app == <<rtspUrl, streamUrl, isStreaming, streamLoading, streamError, showLanding, appMounted,
         streamCalls, streamOps, remoteStream>>
\* what the overlay store and the drag controller never touch
outside == <<pure, retrying, app>>

vars == <<overlays, loading, error, mounted, calls, ops, server, nextId, clean, last,
          budget, draggedOverlay, dragOffset, isDragging, outside>>

\* the drag state of the video player
drag == <<draggedOverlay, dragOffset, isDragging>>

(***************************************************************************)
(* Bounds                                                                  *)
(***************************************************************************)
\* store operations issued in one behaviour (the initial load is one of them)
MaxOps == 2
\* the largest maxRetries apiUtils.retry is called with
MaxRetries == 3
\* stream requests issued after the status check of the mount
MaxStreamOps == 2
\* store operations issued after the initial load, in the behaviours that start loaded
MaxUiOps == 2
\* position updates and deletions issued while the pointer is followed
MaxDragOps == 1

(***************************************************************************)
(* Values                                                                  *)
(***************************************************************************)
Null == "null"
Undefined == "undefined"

P10 == [x |-> 10, y |-> 10]
P50 == [x |-> 50, y |-> 60]

\* the records the remote store holds when the page loads
OverlayA ==
    [_id |-> 1, type |-> "text", content |-> "hello", position |-> P10,
     size |-> [width |-> 200, height |-> 50], visible |-> TRUE, updated_at |-> "server"]
OverlayB ==
    [_id |-> 2, type |-> "logo", content |-> "http://logo", position |-> P10,
     size |-> [width |-> 100, height |-> 100], visible |-> Undefined, updated_at |-> "server"]
InitialServer == <<OverlayA, OverlayB>>

\* ids a caller may name: an initial record and an id the store never held
CallIds == {1, 9}

\* drafts handed to create: a valid one and the invalid logo draft (empty content)
GoodDraft ==
    [type |-> "text", content |-> "hi", position |-> P50,
     size |-> [width |-> 200, height |-> 50], visible |-> TRUE]
BadDraft ==
    [type |-> "logo", content |-> "", position |-> [x |-> 1, y |-> 1],
     size |-> [width |-> 100, height |-> 100]]
Drafts == {GoodDraft, BadDraft}

\* patches handed to update
Patches == {[position |-> P50], [visible |-> FALSE]}

\* update lists handed to batchUpdate
U(i, p) == [id |-> i, data |-> p]
BatchInputs ==
    { <<U(1, [position |-> P50]), U(2, [position |-> P50]), U(1, [visible |-> FALSE])>>,
      <<U(2, [position |-> P50]), U(9, [visible |-> FALSE])>> }

\* what a rejected request carries: error.response.data.error and error.message
Errors ==
    { [response |-> "overlay rejected", message |-> "Request failed"],
      [response |-> Undefined, message |-> "Network Error"],
      [response |-> Undefined, message |-> Undefined] }

(***************************************************************************)
(* Pure helpers: the array operations the hook applies to the collection   *)
(***************************************************************************)
\* { ...overlay, ...updateData }
Spread(o, p) == [f \in (DOMAIN o) \cup (DOMAIN p) |-> IF f \in DOMAIN p THEN p[f] ELSE o[f]]

\* { ...overlay, ...updateData, updated_at: new Date().toISOString() }
Patched(o, p) == [Spread(o, p) EXCEPT !.updated_at = "client"]

\* overlays.findIndex(o => o._id === id), 1-based; 0 when there is none
FindIndex(seq, id) ==
    IF \E i \in DOMAIN seq : seq[i]._id = id
    THEN CHOOSE i \in DOMAIN seq : seq[i]._id = id /\ \A j \in 1..(i - 1) : seq[j]._id # id
    ELSE 0

HasId(seq, id) == FindIndex(seq, id) # 0
Get(seq, id) == seq[FindIndex(seq, id)]
IdsOf(seq) == {seq[i]._id : i \in DOMAIN seq}

\* a string or undefined, as a condition: undefined and the empty string are falsy
Truthy(v) == v # Undefined /\ v # ""

\* the parameter default: defaultMessage = 'An error occurred'
DefaultMessage(d) == IF d = Undefined THEN "An error occurred" ELSE d

\* an extraction that prefers the transport's message to the server's
handleErrorPrefersTransport(e, defaultMessage) ==
    IF Truthy(e.message) THEN e.message
    ELSE IF Truthy(e.response) THEN e.response
    ELSE DefaultMessage(defaultMessage)

\* apiUtils.handleError(error, defaultMessage); e.response stands for error.response?.data?.error
handleError(e, defaultMessage) ==
    IF Truthy(e.response) THEN e.response
    ELSE IF Truthy(e.message) THEN e.message
    ELSE DefaultMessage(defaultMessage)

\* the draft carries the field (overlayData.field is not undefined)
Has(d, f) == f \in DOMAIN d

\* validateOverlay: the size limits
MaxWidth == 1920
MaxHeight == 1080

\* validateOverlay(overlayData).errors, as the set of fields that carry a message.
\* Drafts carry strings in type and content and numbers in the coordinates they have.
validateOverlay(d) ==
    (IF ~Has(d, "type") \/ d.type = "" \/ d.type \notin {"text", "logo"}
     THEN {"type"} ELSE {})
    \cup (IF ~Has(d, "content") \/ d.content = "" THEN {"content"} ELSE {})
    \cup (IF ~Has(d, "position") \/ ~Has(d.position, "x") \/ ~Has(d.position, "y")
          THEN {"position"} ELSE {})
    \cup (IF ~Has(d, "size") \/ ~Has(d.size, "width") \/ ~Has(d.size, "height")
          THEN {"size"} ELSE {})
    \cup (IF Has(d, "position") /\ Has(d.position, "x") /\ Has(d.position, "y")
             /\ (d.position.x < 0 \/ d.position.y < 0)
          THEN {"position"} ELSE {})
    \cup (IF Has(d, "size") /\ Has(d.size, "width") /\ Has(d.size, "height")
             /\ (d.size.width <= 0 \/ d.size.height <= 0
                 \/ d.size.width > MaxWidth \/ d.size.height > MaxHeight)
          THEN {"size"} ELSE {})

isValid(d) == validateOverlay(d) = {}

(***************************************************************************)
(* validateOverlay over JavaScript values: a coordinate is a number, NaN   *)
(* (whose typeof is 'number' and which no comparison holds of), a numeric  *)
(* string (which a comparison converts) or undefined.                      *)
(***************************************************************************)
Num(n) == [t |-> "number", v |-> n]
NaN == [t |-> "NaN", v |-> 0]
Str(n) == [t |-> "string", v |-> n]
Undef == [t |-> "undefined", v |-> 0]

\* typeof j
TypeOf(j) == IF j.t = "NaN" THEN "number" ELSE j.t
\* j < n, j <= n, j > n: false of NaN and of undefined (which converts to NaN)
LessThan(j, n) == j.t \in {"number", "string"} /\ j.v < n
AtMost(j, n) == j.t \in {"number", "string"} /\ j.v <= n
MoreThan(j, n) == j.t \in {"number", "string"} /\ j.v > n

\* position and size of a draft: absent, or an object with two coordinates
NoObject == [present |-> FALSE, a |-> Undef, b |-> Undef]
Object(a, b) == [present |-> TRUE, a |-> a, b |-> b]

\* validateOverlay(overlayData): {isValid, errors}; errors as the set of its keys.
\* position.a, position.b are x, y; size.a, size.b are width, height
validateDraft(d) ==
    LET errors ==
          (IF ~Truthy(d.type) \/ d.type \notin {"text", "logo"} THEN {"type"} ELSE {})
          \cup (IF ~Truthy(d.content) THEN {"content"} ELSE {})
          \cup (IF ~d.position.present \/ TypeOf(d.position.a) # "number"
                   \/ TypeOf(d.position.b) # "number"
                THEN {"position"} ELSE {})
          \cup (IF ~d.size.present \/ TypeOf(d.size.a) # "number"
                   \/ TypeOf(d.size.b) # "number"
                THEN {"size"} ELSE {})
          \cup (IF d.position.present
                   /\ (LessThan(d.position.a, 0) \/ LessThan(d.position.b, 0))
                THEN {"position"} ELSE {})
          \cup (IF d.size.present /\ (AtMost(d.size.a, 0) \/ AtMost(d.size.b, 0))
                THEN {"size"} ELSE {})
          \cup (IF d.size.present
                   /\ (MoreThan(d.size.a, MaxWidth) \/ MoreThan(d.size.b, MaxHeight))
                THEN {"size"} ELSE {})
    IN [fn |-> "validate", isValid |-> errors = {}, errors |-> errors]

(***************************************************************************)
(* The state updates of the hook                                           *)
(***************************************************************************)
\* fetchOverlays, try: setOverlays(data)
SetFetchedAppends(prev, data) == prev \o data
SetFetched(prev, data) == data

\* fetchOverlays, catch: the collection is not written
FetchFailedClears(prev) == <<>>
FetchFailedKeeps(prev) == prev

\* updateOverlay: prevOverlays.map(o => o._id === id ? {...o, ...updateData, updated_at} : o)
MergePatchSkips(prev, id, patch) == prev
\* a merge that adds the patched record when the collection does not hold the id
MergePatchUpserts(prev, id, patch) ==
    IF \E i \in DOMAIN prev : prev[i]._id = id
    THEN [i \in DOMAIN prev |-> IF prev[i]._id = id THEN Patched(prev[i], patch) ELSE prev[i]]
    ELSE Append(prev, Patched([_id |-> id, updated_at |-> "client"], patch))
MergePatch(prev, id, patch) ==
    [i \in DOMAIN prev |-> IF prev[i]._id = id THEN Patched(prev[i], patch) ELSE prev[i]]

\* deleteOverlay: prevOverlays.filter(o => o._id !== id)
RemoveByIdKeepsIt(prev, id) == SelectSeq(prev, LAMBDA o : o._id = id)
RemoveById(prev, id) == SelectSeq(prev, LAMBDA o : o._id # id)

\* batchUpdateOverlays: updates.filter((_, index) => responses[index].status === 'fulfilled')
SuccessfulUpdatesAll(updates, responses) == updates
SuccessfulUpdates(updates, responses) ==
    LET keep == {i \in DOMAIN updates : responses[i].status = "fulfilled"}
        F[k \in 0..Len(updates)] ==
            IF k = 0 THEN <<>>
            ELSE IF k \in keep THEN Append(F[k - 1], updates[k]) ELSE F[k - 1]
    IN F[Len(updates)]

\* batchUpdateOverlays: successfulUpdates.forEach(({id, data}) => newOverlays[index] = {...})
RECURSIVE ApplyUpdates(_, _)
ApplyUpdates(prev, ups) ==
    IF ups = <<>> THEN prev
    ELSE LET u == Head(ups)
             k == FindIndex(prev, u.id)
             next == IF k # 0 THEN [prev EXCEPT ![k] = Patched(prev[k], u.data)] ELSE prev
         IN ApplyUpdates(next, Tail(ups))

(***************************************************************************)
(* Calls and history                                                       *)
(***************************************************************************)
MaxSlots == IF MaxOps > 1 + MaxUiOps THEN MaxOps ELSE 1 + MaxUiOps
Slots == 1..MaxSlots

NoCall == [op |-> "none", http |-> "none", st |-> "none", id |-> 0, arg |-> <<>>,
           got |-> <<>>, err |-> CHOOSE e \in Errors : TRUE, dirty |-> FALSE, items |-> <<>>,
           via |-> "none"]

\* a call of op whose first request, verb http, has just been sent
NewCall(op, http, id, arg) ==
    [NoCall EXCEPT !.op = op, !.http = http, !.st = "req", !.id = id, !.arg = arg]

\* no overlay: the null of draggedOverlay and the id of a call that names none
NoOverlay == 0
NoPoint == [clientX |-> 0, clientY |-> 0]
NoRect == [left |-> 0, top |-> 0, width |-> 0, height |-> 0]
Idle == [id |-> NoOverlay, offset |-> [x |-> 0, y |-> 0], dragging |-> FALSE]

NoEvent == [ev |-> "none", slot |-> 0, id |-> 0, arg |-> <<>>, pre |-> <<>>, issued |-> {},
            fetched |-> "none", data |-> <<>>, ret |-> "none", settled |-> <<>>,
            responses |-> <<>>, repeat |-> FALSE,
            via |-> "none", e |-> NoPoint, rect |-> NoRect, drag |-> Idle,
            preError |-> Null, sent |-> 0]

Event(ev, s) ==
    [NoEvent EXCEPT !.ev = ev, !.slot = s, !.id = calls[s].id, !.arg = calls[s].arg,
                    !.pre = overlays, !.via = calls[s].via]

\* a mutation of the remote or the local collection: every fetch in flight may now be stale
Touched(cs) == [s \in Slots |-> IF cs[s].http = "GET" THEN [cs[s] EXCEPT !.dirty = TRUE] ELSE cs[s]]

Free == ops < budget
Slot == ops + 1

(***************************************************************************)
(* The state outside the overlay store, as it is constructed               *)
(***************************************************************************)
\* no function has been applied
NoInput == [fn |-> "none"]
NoOutput == [fn |-> "none"]
PureIdle == given = NoInput /\ returned = NoOutput

\* what a call of apiCall settles with: a response, or an error that carries a response
\* (with its status) or none; attempt tells the outcomes of one call of retry apart
Outcome(ok, response, status, attempt) ==
    [ok |-> ok, response |-> response, status |-> status, attempt |-> attempt]
\* let lastError; before the first catch: undefined
NoError == Outcome(FALSE, FALSE, 0, 0)
NoOutcome == [how |-> "none", what |-> NoError]

\* apiUtils.retry has not been called
RetryIdle ==
    /\ maxRetries = 0
    /\ retryI = 0
    /\ lastError = NoError
    /\ invocations = <<>>
    /\ retryPhase = "idle"
    /\ retryOut = NoOutcome
    /\ retryTimer = 0

StreamSlots == 1..(1 + MaxStreamOps)
NoStreamCall == [op |-> "none", st |-> "none", url |-> "", active |-> FALSE, via |-> "none"]

\* App, constructed: the useState initial values, no effect has run yet
AppConstructed ==
    /\ rtspUrl = ""
    /\ streamUrl = ""
    /\ isStreaming = FALSE
    /\ streamLoading = FALSE
    /\ streamError = ""
    /\ showLanding = TRUE
    /\ appMounted = FALSE
    /\ streamCalls = [s \in StreamSlots |-> NoStreamCall]
    /\ streamOps = 0

\* nothing outside the overlay store has happened, and no stream is active remotely
OutsideIdle == PureIdle /\ RetryIdle /\ AppConstructed /\ remoteStream = FALSE

\* the hook and the drag controller, constructed: the useState initial values
StoreConstructed ==
    /\ overlays = <<>>
    /\ loading = FALSE
    /\ error = Null
    /\ mounted = FALSE
    /\ calls = [s \in Slots |-> NoCall]
    /\ ops = 0
    /\ server = InitialServer
    /\ nextId = Len(InitialServer) + 1
    /\ clean = FALSE
    /\ last = NoEvent
    /\ budget = MaxOps
    /\ draggedOverlay = NoOverlay
    /\ dragOffset = [x |-> 0, y |-> 0]
    /\ isDragging = FALSE

Init == OutsideIdle /\ StoreConstructed

(***************************************************************************)
(* fetchOverlays, as the pieces the other operations await                 *)
(***************************************************************************)
\* fetchOverlays, finally: setLoading(false)
FinallyLoadingStays == TRUE
FinallyLoading == FALSE

\* the collection, the error and the fetch outcome once the GET of call c has settled;
\* e is the error a rejected GET carries
FetchedOverlays(c) ==
    IF c.st = "ok" THEN SetFetched(overlays, c.got) ELSE FetchFailedKeeps(overlays)
FetchedError(c, e) ==
    IF c.st = "ok" THEN error ELSE handleError(e, "Failed to fetch overlays")
FetchedEvent(ev, s) ==
    [Event(ev, s) EXCEPT !.fetched = IF calls[s].st = "ok" THEN "ok" ELSE "failed",
                         !.data = calls[s].got,
                         !.repeat = calls[s].st = "ok" /\ clean /\ ~calls[s].dirty]
FetchedClean(c) == IF c.st = "ok" THEN ~c.dirty ELSE clean

\* the call's next request, a GET sent by fetchOverlays
Refetching(c, e) == [c EXCEPT !.http = "GET", !.st = "req", !.err = e, !.dirty = FALSE]

Settled(s, verb) == calls[s].http = verb /\ calls[s].st \in {"ok", "fail"}

(***************************************************************************)
(* The remote store.  A request is rejected when the store refuses it or   *)
(* the transport fails; the transport can fail (axios timeout) after the   *)
(* store has applied the request, so a rejected mutation may have taken    *)
(* effect remotely.                                                        *)
(***************************************************************************)
\* GET /overlays
ServeGet(s) ==
    /\ calls[s].http = "GET" /\ calls[s].st = "req"
    /\ \E ok \in BOOLEAN :
         calls' = [calls EXCEPT ![s].st = IF ok THEN "ok" ELSE "fail",
                                ![s].got = IF ok THEN server ELSE <<>>]
    /\ last' = [NoEvent EXCEPT !.ev = "serve"]
    /\ UNCHANGED <<overlays, loading, error, mounted, ops, server, nextId, clean, budget, drag, outside>>

\* the record the remote store creates from a draft
Created(d, id) ==
    [_id |-> id, type |-> d.type, content |-> d.content, position |-> d.position,
     size |-> d.size, visible |-> IF "visible" \in DOMAIN d THEN d.visible ELSE Undefined,
     updated_at |-> "server"]

\* POST /overlays
ServePost(s) ==
    /\ calls[s].http = "POST" /\ calls[s].st = "req"
    /\ \/ /\ \E answered \in BOOLEAN :
               calls' = Touched([calls EXCEPT ![s].st = IF answered THEN "ok" ELSE "fail"])
          /\ server' = Append(server, Created(calls[s].arg, nextId))
          /\ nextId' = nextId + 1
          /\ clean' = FALSE
       \/ /\ calls' = [calls EXCEPT ![s].st = "fail"]
          /\ UNCHANGED <<server, nextId, clean>>
    /\ last' = [NoEvent EXCEPT !.ev = "serve"]
    /\ UNCHANGED <<overlays, loading, error, mounted, ops, budget, drag, outside>>

\* the remote store's record after a PUT
Stored(o, p) == [Spread(o, p) EXCEPT !.updated_at = "server"]
ServerPatch(id, p) ==
    [i \in DOMAIN server |-> IF server[i]._id = id THEN Stored(server[i], p) ELSE server[i]]

\* PUT /overlays/{id}; an id the store does not hold is answered 404
ServePut(s) ==
    /\ calls[s].http = "PUT" /\ calls[s].st = "req"
    /\ \/ /\ HasId(server, calls[s].id)
          /\ \E answered \in BOOLEAN :
               calls' = Touched([calls EXCEPT ![s].st = IF answered THEN "ok" ELSE "fail"])
          /\ server' = ServerPatch(calls[s].id, calls[s].arg)
          /\ clean' = FALSE
       \/ /\ calls' = [calls EXCEPT ![s].st = "fail"]
          /\ UNCHANGED <<server, clean>>
    /\ last' = [NoEvent EXCEPT !.ev = "serve"]
    /\ UNCHANGED <<overlays, loading, error, mounted, ops, nextId, budget, drag, outside>>

\* DELETE /overlays/{id}
ServeDelete(s) ==
    /\ calls[s].http = "DELETE" /\ calls[s].st = "req"
    /\ \/ /\ HasId(server, calls[s].id)
          /\ \E answered \in BOOLEAN :
               calls' = Touched([calls EXCEPT ![s].st = IF answered THEN "ok" ELSE "fail"])
          /\ server' = SelectSeq(server, LAMBDA o : o._id # calls[s].id)
          /\ clean' = FALSE
       \/ /\ calls' = [calls EXCEPT ![s].st = "fail"]
          /\ UNCHANGED <<server, clean>>
    /\ last' = [NoEvent EXCEPT !.ev = "serve"]
    /\ UNCHANGED <<overlays, loading, error, mounted, ops, nextId, budget, drag, outside>>

\* one PUT of a batch
ServeBatchItem(s, i) ==
    /\ calls[s].http = "BATCH"
    /\ i \in DOMAIN calls[s].items /\ calls[s].items[i] = "req"
    /\ \/ /\ HasId(server, calls[s].arg[i].id)
          /\ \E answered \in BOOLEAN :
               calls' = Touched([calls EXCEPT ![s].items[i] =
                                   IF answered THEN "fulfilled" ELSE "rejected"])
          /\ server' = ServerPatch(calls[s].arg[i].id, calls[s].arg[i].data)
          /\ clean' = FALSE
       \/ /\ calls' = [calls EXCEPT ![s].items[i] = "rejected"]
          /\ UNCHANGED <<server, clean>>
    /\ last' = [NoEvent EXCEPT !.ev = "serve"]
    /\ UNCHANGED <<overlays, loading, error, mounted, ops, nextId, budget, drag, outside>>

(***************************************************************************)
(* fetchAll: the initial load and refreshOverlays                          *)
(***************************************************************************)
\* useEffect(() => { fetchOverlays() }, [fetchOverlays])
Mount ==
    /\ ~mounted
    /\ mounted' = TRUE
    /\ loading' = TRUE
    /\ error' = Null
    /\ calls' = [calls EXCEPT ![Slot] = NewCall("fetch", "GET", 0, <<>>)]
    /\ ops' = ops + 1
    /\ last' = [NoEvent EXCEPT !.ev = "mount", !.slot = Slot, !.pre = overlays, !.issued = {"GET"}]
    /\ UNCHANGED <<overlays, server, nextId, clean, budget, drag, outside>>

\* refreshOverlays() -> fetchOverlays(), up to the await
RefreshCall ==
    /\ mounted /\ Free
    /\ loading' = TRUE
    /\ error' = Null
    /\ calls' = [calls EXCEPT ![Slot] = NewCall("fetch", "GET", 0, <<>>)]
    /\ ops' = ops + 1
    /\ last' = [NoEvent EXCEPT !.ev = "refresh", !.slot = Slot, !.pre = overlays, !.issued = {"GET"}]
    /\ UNCHANGED <<overlays, mounted, server, nextId, clean, budget, drag, outside>>

\* fetchOverlays after the await: try/catch, then finally
FetchSettled(s) ==
    /\ calls[s].op = "fetch" /\ Settled(s, "GET")
    /\ \E e \in Errors :
         /\ overlays' = FetchedOverlays(calls[s])
         /\ error' = FetchedError(calls[s], e)
    /\ loading' = FinallyLoading
    /\ clean' = FetchedClean(calls[s])
    /\ calls' = [calls EXCEPT ![s] = NoCall]
    /\ last' = FetchedEvent("fetchAll", s)
    /\ UNCHANGED <<mounted, ops, server, nextId, budget, drag, outside>>

(***************************************************************************)
(* create                                                                  *)
(***************************************************************************)
\* createOverlay(overlayData), up to the await: the draft is posted as given
CreateCall(d) ==
    /\ mounted /\ Free
    /\ calls' = [calls EXCEPT ![Slot] = NewCall("create", "POST", 0, d)]
    /\ ops' = ops + 1
    /\ last' = [NoEvent EXCEPT !.ev = "createCall", !.slot = Slot, !.arg = d, !.pre = overlays,
                               !.issued = {"POST"}]
    /\ UNCHANGED <<overlays, loading, error, mounted, server, nextId, clean, budget, drag, outside>>

\* a create that puts its draft into the collection itself and returns
CreateResolvedSynthesizes(s) ==
    /\ calls[s].op = "create" /\ calls[s].http = "POST" /\ calls[s].st = "ok"
    /\ overlays' = Append(overlays, Created(calls[s].arg, 0))
    /\ calls' = [calls EXCEPT ![s] = NoCall]
    /\ last' = [Event("createReturn", s) EXCEPT !.ret = "response"]
    /\ UNCHANGED <<loading, error, mounted, ops, server, nextId, clean, budget, drag, outside>>

\* createOverlay after the POST resolved: await fetchOverlays(), up to its await
CreateResolved(s) ==
    /\ calls[s].op = "create" /\ calls[s].http = "POST" /\ calls[s].st = "ok"
    /\ loading' = TRUE
    /\ error' = Null
    /\ calls' = [calls EXCEPT ![s] = Refetching(calls[s], calls[s].err)]
    /\ last' = [Event("createFetch", s) EXCEPT !.issued = {"GET"}]
    /\ UNCHANGED <<overlays, mounted, ops, server, nextId, clean, budget, drag, outside>>

\* createOverlay after its fetchOverlays() returned: return response
CreateReturn(s) ==
    /\ calls[s].op = "create" /\ Settled(s, "GET")
    /\ \E e \in Errors :
         /\ overlays' = FetchedOverlays(calls[s])
         /\ error' = FetchedError(calls[s], e)
    /\ loading' = FinallyLoading
    /\ clean' = FetchedClean(calls[s])
    /\ calls' = [calls EXCEPT ![s] = NoCall]
    /\ last' = [FetchedEvent("createReturn", s) EXCEPT !.ret = "response"]
    /\ UNCHANGED <<mounted, ops, server, nextId, budget, drag, outside>>

\* a failed create that re-fetches and clears the collection meanwhile
CreateRejectedRefetches(s) ==
    /\ calls[s].op = "create" /\ calls[s].http = "POST" /\ calls[s].st = "fail"
    /\ overlays' = <<>>
    /\ loading' = TRUE
    /\ error' = Null
    /\ calls' = [calls EXCEPT ![s] = [Refetching(calls[s], calls[s].err) EXCEPT !.op = "fetch"]]
    /\ last' = [Event("createThrow", s) EXCEPT !.issued = {"GET"}, !.ret = "throw"]
    /\ UNCHANGED <<mounted, ops, server, nextId, clean, budget, drag, outside>>

\* createOverlay, catch: setError(handleError(error, ...)); throw error
CreateRejected(s) ==
    /\ calls[s].op = "create" /\ calls[s].http = "POST" /\ calls[s].st = "fail"
    /\ \E e \in Errors : error' = handleError(e, "Failed to create overlay")
    /\ calls' = [calls EXCEPT ![s] = NoCall]
    /\ last' = [Event("createThrow", s) EXCEPT !.ret = "throw"]
    /\ UNCHANGED <<overlays, loading, mounted, ops, server, nextId, clean, budget, drag, outside>>

(***************************************************************************)
(* update                                                                  *)
(***************************************************************************)
\* updateOverlay(id, updateData), up to the await
UpdateCall(id, p) ==
    /\ mounted /\ Free
    /\ calls' = [calls EXCEPT ![Slot] = NewCall("update", "PUT", id, p)]
    /\ ops' = ops + 1
    /\ last' = [NoEvent EXCEPT !.ev = "updateCall", !.slot = Slot, !.id = id, !.arg = p,
                               !.pre = overlays, !.issued = {"PUT"}]
    /\ UNCHANGED <<overlays, loading, error, mounted, server, nextId, clean, budget, drag, outside>>

\* a response that is dropped when a later operation has been issued meanwhile
UpdateResolvedUnlessSuperseded(s) ==
    /\ calls[s].op = "update" /\ calls[s].http = "PUT" /\ calls[s].st = "ok"
    /\ overlays' = IF s < ops THEN overlays ELSE MergePatch(overlays, calls[s].id, calls[s].arg)
    /\ calls' = Touched([calls EXCEPT ![s] = NoCall])
    /\ clean' = FALSE
    /\ last' = [Event("updateReturn", s) EXCEPT !.ret = "return"]
    /\ UNCHANGED <<loading, error, mounted, ops, server, nextId, budget, drag, outside>>

\* updateOverlay after the PUT resolved: merge the patch into the local record
UpdateResolved(s) ==
    /\ calls[s].op = "update" /\ calls[s].http = "PUT" /\ calls[s].st = "ok"
    /\ overlays' = MergePatch(overlays, calls[s].id, calls[s].arg)
    /\ calls' = Touched([calls EXCEPT ![s] = NoCall])
    /\ clean' = FALSE
    /\ last' = [Event("updateReturn", s) EXCEPT !.ret = "return"]
    /\ UNCHANGED <<loading, error, mounted, ops, server, nextId, budget, drag, outside>>

\* a failed update that surfaces the error at once and never re-fetches
UpdateRejectedThrowsFirst(s) ==
    /\ calls[s].op = "update" /\ calls[s].http = "PUT" /\ calls[s].st = "fail"
    /\ \E e \in Errors : error' = handleError(e, "Failed to update overlay")
    /\ calls' = [calls EXCEPT ![s] = NoCall]
    /\ last' = [Event("updateThrow", s) EXCEPT !.ret = "throw"]
    /\ UNCHANGED <<overlays, loading, mounted, ops, server, nextId, clean, budget, drag, outside>>

\* updateOverlay, catch: await fetchOverlays(), up to its await
UpdateRejected(s) ==
    /\ calls[s].op = "update" /\ calls[s].http = "PUT" /\ calls[s].st = "fail"
    /\ loading' = TRUE
    /\ error' = Null
    /\ \E e \in Errors : calls' = [calls EXCEPT ![s] = Refetching(calls[s], e)]
    /\ last' = [Event("updateCatch", s) EXCEPT !.issued = {"GET"}]
    /\ UNCHANGED <<overlays, mounted, ops, server, nextId, clean, budget, drag, outside>>

\* updateOverlay, catch, after fetchOverlays() returned: setError(...); throw error
UpdateThrow(s) ==
    /\ calls[s].op = "update" /\ Settled(s, "GET")
    /\ overlays' = FetchedOverlays(calls[s])
    /\ error' = handleError(calls[s].err, "Failed to update overlay")
    /\ loading' = FinallyLoading
    /\ clean' = FetchedClean(calls[s])
    /\ calls' = [calls EXCEPT ![s] = NoCall]
    /\ last' = [FetchedEvent("updateThrow", s) EXCEPT !.ret = "throw"]
    /\ UNCHANGED <<mounted, ops, server, nextId, budget, drag, outside>>

(***************************************************************************)
(* delete                                                                  *)
(***************************************************************************)
\* deleteOverlay(id), up to the await
DeleteCall(id) ==
    /\ mounted /\ Free
    /\ calls' = [calls EXCEPT ![Slot] = NewCall("delete", "DELETE", id, <<>>)]
    /\ ops' = ops + 1
    /\ last' = [NoEvent EXCEPT !.ev = "deleteCall", !.slot = Slot, !.id = id,
                               !.pre = overlays, !.issued = {"DELETE"}]
    /\ UNCHANGED <<overlays, loading, error, mounted, server, nextId, clean, budget, drag, outside>>

\* deleteOverlay after the DELETE resolved: filter the record out
DeleteResolved(s) ==
    /\ calls[s].op = "delete" /\ calls[s].http = "DELETE" /\ calls[s].st = "ok"
    /\ overlays' = RemoveById(overlays, calls[s].id)
    /\ calls' = Touched([calls EXCEPT ![s] = NoCall])
    /\ clean' = FALSE
    /\ last' = [Event("deleteReturn", s) EXCEPT !.ret = "return"]
    /\ UNCHANGED <<loading, error, mounted, ops, server, nextId, budget, drag, outside>>

\* a failed delete that removes the record all the same and never re-fetches
DeleteRejectedRemoves(s) ==
    /\ calls[s].op = "delete" /\ calls[s].http = "DELETE" /\ calls[s].st = "fail"
    /\ overlays' = RemoveById(overlays, calls[s].id)
    /\ \E e \in Errors : error' = handleError(e, "Failed to delete overlay")
    /\ calls' = [calls EXCEPT ![s] = NoCall]
    /\ last' = [Event("deleteThrow", s) EXCEPT !.ret = "throw"]
    /\ UNCHANGED <<loading, mounted, ops, server, nextId, clean, budget, drag, outside>>

\* deleteOverlay, catch: await fetchOverlays(), up to its await
DeleteRejected(s) ==
    /\ calls[s].op = "delete" /\ calls[s].http = "DELETE" /\ calls[s].st = "fail"
    /\ loading' = TRUE
    /\ error' = Null
    /\ \E e \in Errors : calls' = [calls EXCEPT ![s] = Refetching(calls[s], e)]
    /\ last' = [Event("deleteCatch", s) EXCEPT !.issued = {"GET"}]
    /\ UNCHANGED <<overlays, mounted, ops, server, nextId, clean, budget, drag, outside>>

\* deleteOverlay, catch, after fetchOverlays() returned: setError(...); throw error
DeleteThrow(s) ==
    /\ calls[s].op = "delete" /\ Settled(s, "GET")
    /\ overlays' = FetchedOverlays(calls[s])
    /\ error' = handleError(calls[s].err, "Failed to delete overlay")
    /\ loading' = FinallyLoading
    /\ clean' = FetchedClean(calls[s])
    /\ calls' = [calls EXCEPT ![s] = NoCall]
    /\ last' = [FetchedEvent("deleteThrow", s) EXCEPT !.ret = "throw"]
    /\ UNCHANGED <<mounted, ops, server, nextId, budget, drag, outside>>

(***************************************************************************)
(* batchUpdate                                                             *)
(***************************************************************************)
\* overlayAPI.batchUpdate: one PUT per element, all sent before the first await
BatchCall(us) ==
    /\ mounted /\ Free
    /\ calls' = [calls EXCEPT ![Slot] =
                   [NewCall("batch", "BATCH", 0, us) EXCEPT !.items = [i \in DOMAIN us |-> "req"]]]
    /\ ops' = ops + 1
    /\ last' = [NoEvent EXCEPT !.ev = "batchCall", !.slot = Slot, !.arg = us, !.pre = overlays,
                               !.issued = {"PUT"}]
    /\ UNCHANGED <<overlays, loading, error, mounted, server, nextId, clean, budget, drag, outside>>

\* Promise.allSettled(promises): one {status} per promise, in the order of the promises
AllSettled(items) == [i \in DOMAIN items |-> [status |-> items[i]]]

\* a batch that treats one rejected PUT as the failure of the whole call: it re-fetches
\* and throws
BatchSettledRefetches(s) ==
    /\ calls[s].op = "batch"
    /\ \A i \in DOMAIN calls[s].items : calls[s].items[i] # "req"
    /\ LET responses == AllSettled(calls[s].items)
           failed == \E i \in DOMAIN responses : responses[i].status = "rejected"
       IN /\ overlays' = ApplyUpdates(overlays, SuccessfulUpdates(calls[s].arg, responses))
          /\ last' = [Event("batchReturn", s) EXCEPT
                        !.ret = IF failed THEN "throw" ELSE "responses",
                        !.issued = IF failed THEN {"GET"} ELSE {},
                        !.settled = calls[s].items,
                        !.responses = responses,
                        !.preError = error]
          /\ calls' = Touched([calls EXCEPT ![s] =
                         IF failed THEN [Refetching(calls[s], calls[s].err) EXCEPT !.op = "fetch"]
                         ELSE NoCall])
          /\ loading' = (failed \/ loading)
    /\ clean' = FALSE
    /\ UNCHANGED <<error, mounted, ops, server, nextId, budget, drag, outside>>

\* batchUpdateOverlays once every PUT has settled: merge the fulfilled ones, return responses
BatchSettled(s) ==
    /\ calls[s].op = "batch"
    /\ \A i \in DOMAIN calls[s].items : calls[s].items[i] # "req"
    /\ LET responses == AllSettled(calls[s].items)
       IN /\ overlays' = ApplyUpdates(overlays, SuccessfulUpdates(calls[s].arg, responses))
          /\ last' = [Event("batchReturn", s) EXCEPT !.ret = "responses",
                                                     !.settled = calls[s].items,
                                                     !.responses = responses,
                                                     !.preError = error]
    /\ calls' = Touched([calls EXCEPT ![s] = NoCall])
    /\ clean' = FALSE
    /\ UNCHANGED <<loading, error, mounted, ops, server, nextId, budget, drag, outside>>

(***************************************************************************)
(* Specification                                                           *)
(***************************************************************************)
Next ==
    \/ Mount
    \/ RefreshCall
    \/ \E d \in Drafts : CreateCall(d)
    \/ \E id \in CallIds, p \in Patches : UpdateCall(id, p)
    \/ \E id \in CallIds : DeleteCall(id)
    \/ \E us \in BatchInputs : BatchCall(us)
    \/ \E s \in Slots :
         \/ ServeGet(s)
         \/ ServePost(s)
         \/ ServePut(s)
         \/ ServeDelete(s)
         \/ \E i \in DOMAIN calls[s].items : ServeBatchItem(s, i)
         \/ FetchSettled(s)
         \/ CreateResolved(s)
         \/ CreateReturn(s)
         \/ CreateRejected(s)
         \/ UpdateResolved(s)
         \/ UpdateRejected(s)
         \/ UpdateThrow(s)
         \/ DeleteResolved(s)
         \/ DeleteRejected(s)
         \/ DeleteThrow(s)
         \/ BatchSettled(s)

Spec == Init /\ [][Next]_vars

(***************************************************************************)
(* The page once the initial load has returned the remote collection: the  *)
(* state the user interface acts on, with n further store operations to    *)
(* come                                                                    *)
(***************************************************************************)
StoreLoaded(n) ==
    /\ overlays = InitialServer
    /\ loading = FALSE
    /\ error = Null
    /\ mounted = TRUE
    /\ calls = [s \in Slots |-> NoCall]
    /\ ops = 1
    /\ server = InitialServer
    /\ nextId = Len(InitialServer) + 1
    /\ clean = TRUE
    /\ last = [NoEvent EXCEPT !.ev = "fetchAll", !.slot = 1, !.fetched = "ok",
                              !.data = InitialServer]
    /\ budget = 1 + n
    /\ draggedOverlay = NoOverlay
    /\ dragOffset = [x |-> 0, y |-> 0]
    /\ isDragging = FALSE

Loaded(n) == OutsideIdle /\ StoreLoaded(n)

InitLoaded == Loaded(MaxUiOps)

(***************************************************************************)
(* toggleVisibility                                                        *)
(***************************************************************************)
\* a JavaScript value is the boolean true
IsTrue(v) == ToString(v) = "TRUE"

\* a negation that keeps a true flag true
NotVisibleKeeps(v) == TRUE
\* !overlay.visible: false for true, true for false and for undefined
NotVisible(v) == ~IsTrue(v)

\* ids toggleVisibility is called with: the two initial records and an unknown id
ToggleIds == {1, 2, 9}

\* a toggle that never looks the record up and sends its update regardless
ToggleVisibilityUnchecked(id) ==
    /\ mounted /\ Free
    /\ calls' = [calls EXCEPT ![Slot] =
                   [NewCall("update", "PUT", id, [visible |-> TRUE]) EXCEPT !.via = "toggle"]]
    /\ ops' = ops + 1
    /\ last' = [NoEvent EXCEPT !.ev = "toggle", !.slot = Slot, !.id = id,
                               !.arg = [visible |-> TRUE], !.pre = overlays,
                               !.issued = {"PUT"}, !.via = "toggle", !.preError = error,
                               !.sent = ops]
    /\ UNCHANGED <<overlays, loading, error, mounted, server, nextId, clean, budget, drag, outside>>

\* toggleOverlayVisibility(id), up to the await inside updateOverlay: the record is looked
\* up in the collection of the current render; without it the call returns at once
ToggleVisibility(id) ==
    /\ mounted
    /\ IF HasId(overlays, id)
       THEN LET patch == [visible |-> NotVisible(Get(overlays, id).visible)]
            IN /\ Free
               /\ calls' = [calls EXCEPT ![Slot] =
                              [NewCall("update", "PUT", id, patch) EXCEPT !.via = "toggle"]]
               /\ ops' = ops + 1
               /\ last' = [NoEvent EXCEPT !.ev = "toggle", !.slot = Slot, !.id = id,
                                          !.arg = patch, !.pre = overlays,
                                          !.issued = {"PUT"}, !.via = "toggle",
                                          !.preError = error, !.sent = ops]
       ELSE /\ last' = [NoEvent EXCEPT !.ev = "toggle", !.id = id, !.pre = overlays,
                                       !.ret = "return", !.via = "toggle",
                                       !.preError = error, !.sent = ops]
            /\ UNCHANGED <<calls, ops>>
    /\ UNCHANGED <<overlays, loading, error, mounted, server, nextId, clean, budget, drag, outside>>

NextToggle ==
    \/ \E id \in ToggleIds : ToggleVisibility(id)
    \/ \E s \in Slots :
         \/ ServePut(s)
         \/ ServeGet(s)
         \/ UpdateResolved(s)
         \/ UpdateRejected(s)
         \/ UpdateThrow(s)

SpecToggle == InitLoaded /\ [][NextToggle]_vars

(***************************************************************************)
(* The drag controller of the video player (VideoPlayer.js).  Lengths the  *)
(* browser reports (pointer coordinates, getBoundingClientRect) are real   *)
(* numbers; they are held here in half pixels, so that Math.round has      *)
(* something to round.  Stored positions and sizes are whole pixels.       *)
(***************************************************************************)
\* n pixels, in half pixels
Px(n) == n + n

MathMax(a, b) == IF a > b THEN a ELSE b
MathMin(a, b) == IF a < b THEN a ELSE b
\* Math.round of h half pixels, in pixels: the nearest integer, a half goes up
MathRound(h) == (h + 1) \div 2

\* a constraint that forgets the lower edge
ConstrainedToMax(new, max) == MathMin(new, max)
\* Math.max(0, Math.min(newX, maxX))
Constrained(new, max) == MathMax(0, MathMin(new, max))

\* the container's bounding rectangle: 800 x 450 at (10, 0); the same laid out on half
\* pixels; and one smaller than OverlayA in both directions
Wide == [left |-> Px(10), top |-> 0, width |-> Px(800), height |-> Px(450)]
Fractional == [left |-> Px(10) + 1, top |-> 0, width |-> Px(800) + 1, height |-> Px(450) + 1]
Narrow == [left |-> Px(10), top |-> 0, width |-> Px(150), height |-> Px(40)]
Containers == {Wide, Fractional, Narrow}

\* where the pointer goes down (on OverlayA, right of OverlayB), and where it moves
\* to: near the right edge, and at the top near the left edge
DownPoints == {[clientX |-> Px(150), clientY |-> Px(20)]}
MovePoints == {[clientX |-> Px(790), clientY |-> Px(70)],
               [clientX |-> Px(110), clientY |-> 0]}

\* the record a deletion names while the pointer is followed
DragDeleteIds == {1}

\* the bounding rectangle of a rendered overlay: style left, top, width, height
OverlayRect(o, videoRect) ==
    [left |-> videoRect.left + Px(o.position.x), top |-> videoRect.top + Px(o.position.y),
     width |-> Px(o.size.width), height |-> Px(o.size.height)]
Inside(e, r) ==
    /\ r.left <= e.clientX /\ e.clientX <= r.left + r.width
    /\ r.top <= e.clientY /\ e.clientY <= r.top + r.height

\* overlay.visible !== false
Rendered(o) == ToString(o.visible) # "FALSE"

\* overlays.filter(overlay => overlay.visible !== false): the overlays on screen
visibleOverlays == {overlays[i] : i \in {j \in DOMAIN overlays : Rendered(overlays[j])}}

DragState == [id |-> draggedOverlay, offset |-> dragOffset, dragging |-> isDragging]

\* handleOverlayMouseDown(e, overlay): the pointer went down on a rendered overlay
MouseDown(o, e, videoRect) ==
    /\ mounted
    /\ o \in visibleOverlays
    /\ Inside(e, OverlayRect(o, videoRect))
    /\ LET rect == OverlayRect(o, videoRect)
       IN dragOffset' = [x |-> e.clientX - rect.left, y |-> e.clientY - rect.top]
    /\ draggedOverlay' = o._id
    /\ isDragging' = TRUE
    /\ last' = [NoEvent EXCEPT !.ev = "mouseDown", !.id = o._id, !.pre = overlays, !.e = e,
                               !.rect = videoRect, !.drag = DragState]
    /\ UNCHANGED <<overlays, loading, error, mounted, calls, ops, server, nextId, clean, budget,
                   outside>>

\* the position a move hands to onOverlayUpdate
NewX(e, videoRect) == e.clientX - videoRect.left - dragOffset.x
NewY(e, videoRect) == e.clientY - videoRect.top - dragOffset.y
MaxX(overlay, videoRect) == videoRect.width - Px(overlay.size.width)
MaxY(overlay, videoRect) == videoRect.height - Px(overlay.size.height)
MovedTo(overlay, e, videoRect) ==
    [position |->
        [x |-> MathRound(Constrained(NewX(e, videoRect), MaxX(overlay, videoRect))),
         y |-> MathRound(Constrained(NewY(e, videoRect), MaxY(overlay, videoRect)))]]

\* a move that looks at neither the drag state nor the collection before it sends
MouseMoveUnchecked(e, videoRect) ==
    /\ mounted /\ Free
    /\ LET patch == [position |-> [x |-> MathRound(NewX(e, videoRect)),
                                   y |-> MathRound(NewY(e, videoRect))]]
       IN /\ calls' = [calls EXCEPT ![Slot] =
                         [NewCall("update", "PUT", draggedOverlay, patch) EXCEPT !.via = "drag"]]
          /\ last' = [NoEvent EXCEPT !.ev = "mouseMove", !.slot = Slot, !.id = draggedOverlay,
                                     !.arg = patch, !.pre = overlays, !.issued = {"PUT"},
                                     !.via = "drag", !.e = e, !.rect = videoRect,
                                     !.drag = DragState, !.preError = error, !.sent = ops]
    /\ ops' = ops + 1
    /\ UNCHANGED <<overlays, loading, error, mounted, server, nextId, clean, budget, drag, outside>>

\* handleMouseMove(e), through onOverlayUpdate and handleOverlayUpdate up to the await
\* inside updateOverlay
MouseMove(e, videoRect) ==
    /\ mounted
    /\ IF draggedOverlay = NoOverlay \/ ~isDragging \/ ~HasId(overlays, draggedOverlay)
       THEN /\ last' = [NoEvent EXCEPT !.ev = "mouseMove", !.id = draggedOverlay,
                                       !.pre = overlays, !.drag = DragState,
                                       !.preError = error, !.sent = ops]
            /\ UNCHANGED <<calls, ops>>
       ELSE LET patch == MovedTo(Get(overlays, draggedOverlay), e, videoRect)
            IN /\ Free
               /\ calls' = [calls EXCEPT ![Slot] =
                              [NewCall("update", "PUT", draggedOverlay, patch)
                                  EXCEPT !.via = "drag"]]
               /\ ops' = ops + 1
               /\ last' = [NoEvent EXCEPT !.ev = "mouseMove", !.slot = Slot,
                                          !.id = draggedOverlay, !.arg = patch,
                                          !.pre = overlays, !.issued = {"PUT"},
                                          !.via = "drag", !.e = e, !.rect = videoRect,
                                          !.drag = DragState, !.preError = error,
                                          !.sent = ops]
    /\ UNCHANGED <<overlays, loading, error, mounted, server, nextId, clean, budget, drag, outside>>

\* a release that leaves the dragged id in place
HandleMouseUpKeepsId(ev) ==
    /\ mounted
    /\ isDragging' = FALSE
    /\ last' = [NoEvent EXCEPT !.ev = ev, !.id = draggedOverlay, !.pre = overlays,
                               !.drag = DragState]
    /\ UNCHANGED <<overlays, loading, error, mounted, calls, ops, server, nextId, clean, budget,
                   draggedOverlay, dragOffset, outside>>

\* handleMouseUp, bound to the container's onMouseUp and onMouseLeave
HandleMouseUp(ev) ==
    /\ mounted
    /\ draggedOverlay' = NoOverlay
    /\ isDragging' = FALSE
    /\ last' = [NoEvent EXCEPT !.ev = ev, !.id = draggedOverlay, !.pre = overlays,
                               !.drag = DragState]
    /\ UNCHANGED <<overlays, loading, error, mounted, calls, ops, server, nextId, clean, budget,
                   dragOffset, outside>>

NextDrag ==
    \/ \E o \in visibleOverlays, e \in DownPoints, videoRect \in Containers :
         MouseDown(o, e, videoRect)
    \/ \E e \in MovePoints, videoRect \in Containers : MouseMove(e, videoRect)
    \/ \E ev \in {"mouseUp", "mouseLeave"} : HandleMouseUp(ev)
    \/ \E id \in DragDeleteIds : DeleteCall(id)
    \/ \E s \in Slots :
         \/ ServePut(s)
         \/ ServeDelete(s)
         \/ ServeGet(s)
         \/ UpdateResolved(s)
         \/ UpdateRejected(s)
         \/ UpdateThrow(s)
         \/ DeleteResolved(s)
         \/ DeleteRejected(s)
         \/ DeleteThrow(s)

InitDrag == Loaded(MaxDragOps)

SpecDrag == InitDrag /\ [][NextDrag]_vars

(***************************************************************************)
(* Creations on the loaded page                                            *)
(***************************************************************************)
\* a draft one pixel wider than validateOverlay allows, and one left of the origin
WideDraft == [GoodDraft EXCEPT !.size = [width |-> MaxWidth + 1, height |-> 50]]
OutsideDraft == [GoodDraft EXCEPT !.position = [x |-> -1, y |-> 0]]
BoundsDrafts == {GoodDraft, WideDraft, OutsideDraft}

NextCreate ==
    \/ \E d \in BoundsDrafts : CreateCall(d)
    \/ \E s \in Slots :
         \/ ServePost(s)
         \/ ServeGet(s)
         \/ CreateResolved(s)
         \/ CreateReturn(s)
         \/ CreateRejected(s)

SpecCreate == InitLoaded /\ [][NextCreate]_vars

(***************************************************************************)
(* Updates and deletions of one record in flight together                  *)
(***************************************************************************)
P0 == [x |-> 0, y |-> 0]
RacePatches == {[position |-> P50], [position |-> P0]}
RaceIds == {1}

NextRace ==
    \/ \E id \in RaceIds, p \in RacePatches : UpdateCall(id, p)
    \/ \E id \in RaceIds : DeleteCall(id)
    \/ \E s \in Slots :
         \/ ServePut(s)
         \/ ServeDelete(s)
         \/ ServeGet(s)
         \/ UpdateResolved(s)
         \/ UpdateRejected(s)
         \/ UpdateThrow(s)
         \/ DeleteResolved(s)
         \/ DeleteRejected(s)
         \/ DeleteThrow(s)

SpecRace == InitLoaded /\ [][NextRace]_vars

(***************************************************************************)
(* apiUtils.handleError, applied to the errors a rejected request can      *)
(* carry                                                                   *)
(***************************************************************************)
\* error.response?.data?.error: absent, empty, or a message of the server
ServerMessages == {Undefined, "", "overlay rejected", "Overlay not found"}
\* error.message: absent, empty, or a message of the transport
TransportMessages == {Undefined, "", "Network Error", "timeout of 30000ms exceeded"}
\* the default of the caller: not supplied, or the string of one of the hook's operations
DefaultMessages ==
    {Undefined, "Failed to fetch overlays", "Failed to create overlay",
     "Failed to update overlay", "Failed to delete overlay", "Failed to update overlays"}

HandleErrorInputs ==
    [fn : {"handleError"}, error : [response : ServerMessages, message : TransportMessages],
     defaultMessage : DefaultMessages]

\* const errorMessage = apiUtils.handleError(error, defaultMessage)
HandleErrorCall ==
    /\ given.fn = "handleError" /\ returned = NoOutput
    /\ returned' = [fn |-> "handleError",
                    value |-> handleError(given.error, given.defaultMessage)]
    /\ UNCHANGED <<overlays, loading, error, mounted, calls, ops, server, nextId, clean, last,
                   budget, drag, given, retrying, app>>

InitHandleError ==
    /\ StoreLoaded(0)
    /\ RetryIdle /\ AppConstructed /\ remoteStream = FALSE
    /\ given \in HandleErrorInputs
    /\ returned = NoOutput

SpecHandleError == InitHandleError /\ [][HandleErrorCall]_vars

(***************************************************************************)
(* apiUtils.retry(apiCall, maxRetries, delay).  One action per task: the   *)
(* call up to its first await, the continuation when apiCall settled (up   *)
(* to the return, the throw or the await of the timeout), and the          *)
(* continuation when the timeout fired (up to the await of apiCall).       *)
(***************************************************************************)
\* the statuses an error's response carries: around both ends of 400..499, and above
ErrorStatuses == {400, 499, 500, 503}

\* what the k-th call of apiCall can settle with: a response, an error without
\* response (the transport failed), an error with a response
ApiOutcomes(k) ==
    {Outcome(TRUE, TRUE, 200, k), Outcome(FALSE, FALSE, 0, k)}
        \cup {Outcome(FALSE, TRUE, st, k) : st \in ErrorStatuses}

\* error.response?.status >= 400 && error.response?.status < 500
ClientError(e) == e.response /\ e.status >= 400 /\ e.status < 500

Returns(o) == [how |-> "return", what |-> o]
Throws(e) == [how |-> "throw", what |-> e]

\* retry(apiCall, m): let lastError; the loop test; the first await apiCall(), or,
\* when the loop does not run, throw lastError
RetryCall(m) ==
    /\ retryPhase = "idle"
    /\ maxRetries' = m
    /\ retryI' = 0
    /\ lastError' = NoError
    /\ IF 0 < m
       THEN retryPhase' = "calling" /\ retryOut' = retryOut
       ELSE retryPhase' = "thrown" /\ retryOut' = Throws(lastError')
    /\ UNCHANGED <<overlays, loading, error, mounted, calls, ops, server, nextId, clean, last,
                   budget, drag, pure, invocations, retryTimer, app>>

\* a retry that waits and tries again whatever the error was
ApiCallSettlesRetriesAll(o) ==
    /\ retryPhase = "calling"
    /\ o \in ApiOutcomes(retryI + 1)
    /\ invocations' = Append(invocations, o)
    /\ IF o.ok
       THEN /\ retryPhase' = "returned"
            /\ retryOut' = Returns(o)
            /\ UNCHANGED <<lastError, retryI, retryTimer>>
       ELSE /\ lastError' = o
            /\ IF retryI < maxRetries - 1
               THEN /\ retryPhase' = "waiting"
                    /\ retryTimer' = retryI + 1
                    /\ UNCHANGED <<retryI, retryOut>>
               ELSE /\ retryI' = retryI + 1
                    /\ retryPhase' = "thrown"
                    /\ retryOut' = Throws(o)
                    /\ UNCHANGED retryTimer
    /\ UNCHANGED <<overlays, loading, error, mounted, calls, ops, server, nextId, clean, last,
                   budget, drag, pure, maxRetries, app>>

\* apiCall() settled with o: return it; or catch: lastError = error, throw on a 4xx
\* response, await the timeout of delay * (i + 1) unless this was the last round, and
\* then i++, the loop test and, after the loop, throw lastError
ApiCallSettles(o) ==
    /\ retryPhase = "calling"
    /\ o \in ApiOutcomes(retryI + 1)
    /\ invocations' = Append(invocations, o)
    /\ IF o.ok
       THEN /\ retryPhase' = "returned"
            /\ retryOut' = Returns(o)
            /\ UNCHANGED <<lastError, retryI, retryTimer>>
       ELSE /\ lastError' = o
            /\ IF ClientError(o)
               THEN /\ retryPhase' = "thrown"
                    /\ retryOut' = Throws(o)
                    /\ UNCHANGED <<retryI, retryTimer>>
               ELSE IF retryI < maxRetries - 1
               THEN /\ retryPhase' = "waiting"
                    /\ retryTimer' = retryI + 1
                    /\ UNCHANGED <<retryI, retryOut>>
               ELSE /\ retryI' = retryI + 1
                    /\ retryPhase' = "thrown"
                    /\ retryOut' = Throws(lastError')
                    /\ UNCHANGED retryTimer
    /\ UNCHANGED <<overlays, loading, error, mounted, calls, ops, server, nextId, clean, last,
                   budget, drag, pure, maxRetries, app>>

\* the timeout fired: i++, the loop test (true, or the timeout had not been awaited),
\* await apiCall()
RetryTimerFires ==
    /\ retryPhase = "waiting"
    /\ retryI' = retryI + 1
    /\ retryTimer' = 0
    /\ retryPhase' = "calling"
    /\ UNCHANGED <<overlays, loading, error, mounted, calls, ops, server, nextId, clean, last,
                   budget, drag, pure, maxRetries, lastError, invocations, retryOut, app>>

NextRetry ==
    \/ \E m \in 0..MaxRetries : RetryCall(m)
    \/ \E o \in ApiOutcomes(retryI + 1) : ApiCallSettles(o)
    \/ RetryTimerFires

SpecRetry == Init /\ [][NextRetry]_vars

\* apiCall settles (the client's requests time out after 30 s) and timeouts fire
RetryFairness ==
    /\ WF_vars(\E o \in ApiOutcomes(retryI + 1) : ApiCallSettles(o))
    /\ WF_vars(RetryTimerFires)

SpecRetryFair == SpecRetry /\ RetryFairness

(***************************************************************************)
(* App (frontend/src/App.js): the landing view, the stream state and the   *)
(* stream requests, with the stream service that answers them.  A handler  *)
(* is one action up to its await; the continuation after the await is      *)
(* another.                                                                *)
(***************************************************************************)
\* what the URL field can hold: nothing, blanks, a demo source, a camera
RtspInputs == {"", " ", "rtsp://demo", "rtsp://camera"}
\* rtspUrl.trim()
Trim(u) == IF u = " " THEN "" ELSE u
\* rtspUrl.includes('demo') || rtspUrl.includes('sample')
IsDemo(u) == u = "rtsp://demo"
SampleVideo == "BigBuckBunny.mp4"
HlsUrl == "stream.m3u8"

\* if (showLanding && !isStreaming) return <LandingPage .../>
LandingDisplayed == showLanding /\ ~isStreaming

StreamFree == streamOps < 1 + MaxStreamOps
StreamSlot == streamOps + 1
NewStreamCall(op, via) == [NoStreamCall EXCEPT !.op = op, !.st = "req", !.via = via]
StreamEvent(ev, s) == [NoEvent EXCEPT !.ev = ev, !.slot = s, !.via = streamCalls[s].via]
StreamSettled(s, op) == streamCalls[s].op = op /\ streamCalls[s].st \in {"ok", "fail"}

\* useEffect(() => { checkStreamStatus() }, []), up to the await
AppMount ==
    /\ ~appMounted
    /\ appMounted' = TRUE
    /\ streamCalls' = [streamCalls EXCEPT ![StreamSlot] = NewStreamCall("status", "mount")]
    /\ streamOps' = streamOps + 1
    /\ last' = [NoEvent EXCEPT !.ev = "appMount", !.slot = StreamSlot]
    /\ UNCHANGED <<overlays, loading, error, mounted, calls, ops, server, nextId, clean,
                   budget, drag, pure, retrying, rtspUrl, streamUrl, isStreaming,
                   streamLoading, streamError, showLanding, remoteStream>>

\* GET /stream/status
ServeStatus(s) ==
    /\ streamCalls[s].op = "status" /\ streamCalls[s].st = "req"
    /\ \E ok \in BOOLEAN :
         streamCalls' = [streamCalls EXCEPT
                           ![s].st = IF ok THEN "ok" ELSE "fail",
                           ![s].active = ok /\ remoteStream,
                           ![s].url = IF ok /\ remoteStream THEN HlsUrl ELSE ""]
    /\ last' = [NoEvent EXCEPT !.ev = "serveStream"]
    /\ UNCHANGED <<overlays, loading, error, mounted, calls, ops, server, nextId, clean,
                   budget, drag, pure, retrying, rtspUrl, streamUrl, isStreaming,
                   streamLoading, streamError, showLanding, appMounted, streamOps,
                   remoteStream>>

\* checkStreamStatus after the await: an active stream is shown, an error is logged
StatusSettled(s) ==
    /\ StreamSettled(s, "status")
    /\ IF streamCalls[s].st = "ok" /\ streamCalls[s].active /\ streamCalls[s].url # ""
       THEN /\ isStreaming' = TRUE
            /\ streamUrl' = streamCalls[s].url
            /\ showLanding' = FALSE
       ELSE UNCHANGED <<isStreaming, streamUrl, showLanding>>
    /\ streamCalls' = [streamCalls EXCEPT ![s] = NoStreamCall]
    /\ last' = StreamEvent("statusSettled", s)
    /\ UNCHANGED <<overlays, loading, error, mounted, calls, ops, server, nextId, clean,
                   budget, drag, pure, retrying, rtspUrl, streamLoading, streamError,
                   appMounted, streamOps, remoteStream>>

\* setRtspUrl(u): the URL field of the landing view, or the demo button of the main
\* view (disabled while streaming)
SetRtspUrl(u) ==
    /\ appMounted
    /\ LandingDisplayed \/ (IsDemo(u) /\ ~isStreaming)
    /\ rtspUrl' = u
    /\ last' = [NoEvent EXCEPT !.ev = "setRtspUrl"]
    /\ UNCHANGED <<overlays, loading, error, mounted, calls, ops, server, nextId, clean,
                   budget, drag, pure, retrying, streamUrl, isStreaming, streamLoading,
                   streamError, showLanding, appMounted, streamCalls, streamOps,
                   remoteStream>>

\* startStream(), handed to the landing view: up to its return (no URL, demo source) or
\* to the await of streamAPI.start
StartStream ==
    /\ appMounted /\ LandingDisplayed
    /\ IF Trim(rtspUrl) = ""
       THEN /\ streamError' = "Please enter a valid RTSP URL"
            /\ UNCHANGED <<streamUrl, isStreaming, streamLoading, showLanding, streamCalls,
                           streamOps>>
       ELSE IF IsDemo(rtspUrl)
       THEN /\ streamError' = ""
            /\ streamUrl' = SampleVideo
            /\ isStreaming' = TRUE
            /\ showLanding' = FALSE
            /\ streamLoading' = FALSE
            /\ UNCHANGED <<streamCalls, streamOps>>
       ELSE /\ StreamFree
            /\ streamLoading' = TRUE
            /\ streamError' = ""
            /\ streamCalls' = [streamCalls EXCEPT
                                 ![StreamSlot] = NewStreamCall("start", "landing")]
            /\ streamOps' = streamOps + 1
            /\ UNCHANGED <<streamUrl, isStreaming, showLanding>>
    /\ last' = [NoEvent EXCEPT !.ev = "startStream"]
    /\ UNCHANGED <<overlays, loading, error, mounted, calls, ops, server, nextId, clean,
                   budget, drag, pure, retrying, rtspUrl, appMounted, remoteStream>>

\* POST /stream/start: the service starts the stream and answers, or starts it and the
\* answer is lost, or refuses
ServeStart(s) ==
    /\ streamCalls[s].op = "start" /\ streamCalls[s].st = "req"
    /\ \/ /\ \E answered \in BOOLEAN :
               streamCalls' = [streamCalls EXCEPT
                                 ![s].st = IF answered THEN "ok" ELSE "fail",
                                 ![s].url = IF answered THEN HlsUrl ELSE ""]
          /\ remoteStream' = TRUE
       \/ /\ streamCalls' = [streamCalls EXCEPT ![s].st = "fail"]
          /\ UNCHANGED remoteStream
    /\ last' = [NoEvent EXCEPT !.ev = "serveStream"]
    /\ UNCHANGED <<overlays, loading, error, mounted, calls, ops, server, nextId, clean,
                   budget, drag, pure, retrying, rtspUrl, streamUrl, isStreaming,
                   streamLoading, streamError, showLanding, appMounted, streamOps>>

\* startStream after the await: try, catch, finally
StartSettled(s) ==
    /\ StreamSettled(s, "start")
    /\ IF streamCalls[s].st = "ok"
       THEN /\ streamUrl' = streamCalls[s].url
            /\ isStreaming' = TRUE
            /\ showLanding' = FALSE
            /\ UNCHANGED streamError
       ELSE /\ \E e \in Errors : streamError' = handleError(e, "Failed to start stream")
            /\ UNCHANGED <<streamUrl, isStreaming, showLanding>>
    /\ streamLoading' = FALSE
    /\ streamCalls' = [streamCalls EXCEPT ![s] = NoStreamCall]
    /\ last' = StreamEvent("startSettled", s)
    /\ UNCHANGED <<overlays, loading, error, mounted, calls, ops, server, nextId, clean,
                   budget, drag, pure, retrying, rtspUrl, appMounted, streamOps,
                   remoteStream>>

\* error.response?.data?.error || 'Failed to stop stream'
StopError(e) == IF Truthy(e.response) THEN e.response ELSE "Failed to stop stream"

\* stopStream(), from the header's stop button (shown while streaming, disabled while
\* loading): up to the await of streamAPI.stop
StopStream ==
    /\ appMounted /\ ~LandingDisplayed
    /\ isStreaming /\ ~streamLoading
    /\ StreamFree
    /\ streamLoading' = TRUE
    /\ streamCalls' = [streamCalls EXCEPT ![StreamSlot] = NewStreamCall("stop", "button")]
    /\ streamOps' = streamOps + 1
    /\ last' = [NoEvent EXCEPT !.ev = "stopStream", !.slot = StreamSlot]
    /\ UNCHANGED <<overlays, loading, error, mounted, calls, ops, server, nextId, clean,
                   budget, drag, pure, retrying, rtspUrl, streamUrl, isStreaming,
                   streamError, showLanding, appMounted, remoteStream>>

\* goBackToLanding(), from the header: if (isStreaming) stopStream() up to its await;
\* setShowLanding(true); setError('')
GoBackToLanding ==
    /\ appMounted /\ ~LandingDisplayed
    /\ IF isStreaming
       THEN /\ StreamFree
            /\ streamLoading' = TRUE
            /\ streamCalls' = [streamCalls EXCEPT
                                 ![StreamSlot] = NewStreamCall("stop", "goBack")]
            /\ streamOps' = streamOps + 1
       ELSE UNCHANGED <<streamLoading, streamCalls, streamOps>>
    /\ showLanding' = TRUE
    /\ streamError' = ""
    /\ last' = [NoEvent EXCEPT !.ev = "goBack", !.slot = IF isStreaming THEN StreamSlot ELSE 0,
                               !.via = "goBack"]
    /\ UNCHANGED <<overlays, loading, error, mounted, calls, ops, server, nextId, clean,
                   budget, drag, pure, retrying, rtspUrl, streamUrl, isStreaming,
                   appMounted, remoteStream>>

\* POST /stream/stop: the service stops the stream and answers, or stops it and the
\* answer is lost, or refuses
ServeStop(s) ==
    /\ streamCalls[s].op = "stop" /\ streamCalls[s].st = "req"
    /\ \/ /\ \E answered \in BOOLEAN :
               streamCalls' = [streamCalls EXCEPT ![s].st = IF answered THEN "ok" ELSE "fail"]
          /\ remoteStream' = FALSE
       \/ /\ streamCalls' = [streamCalls EXCEPT ![s].st = "fail"]
          /\ UNCHANGED remoteStream
    /\ last' = [NoEvent EXCEPT !.ev = "serveStream"]
    /\ UNCHANGED <<overlays, loading, error, mounted, calls, ops, server, nextId, clean,
                   budget, drag, pure, retrying, rtspUrl, streamUrl, isStreaming,
                   streamLoading, streamError, showLanding, appMounted, streamOps>>

\* stopStream after the await: try, catch, finally
StopSettled(s) ==
    /\ StreamSettled(s, "stop")
    /\ IF streamCalls[s].st = "ok"
       THEN /\ streamUrl' = ""
            /\ isStreaming' = FALSE
            /\ rtspUrl' = ""
            /\ UNCHANGED streamError
       ELSE /\ \E e \in Errors : streamError' = StopError(e)
            /\ UNCHANGED <<streamUrl, isStreaming, rtspUrl>>
    /\ streamLoading' = FALSE
    /\ streamCalls' = [streamCalls EXCEPT ![s] = NoStreamCall]
    /\ last' = [StreamEvent("stopSettled", s) EXCEPT
                  !.fetched = IF streamCalls[s].st = "ok" THEN "ok" ELSE "failed"]
    /\ UNCHANGED <<overlays, loading, error, mounted, calls, ops, server, nextId, clean,
                   budget, drag, pure, retrying, showLanding, appMounted, streamOps,
                   remoteStream>>

NextApp ==
    \/ AppMount
    \/ \E u \in RtspInputs : SetRtspUrl(u)
    \/ StartStream
    \/ StopStream
    \/ GoBackToLanding
    \/ \E s \in StreamSlots :
         \/ ServeStatus(s)
         \/ StatusSettled(s)
         \/ ServeStart(s)
         \/ StartSettled(s)
         \/ ServeStop(s)
         \/ StopSettled(s)

\* App, constructed; a stream may be active remotely, left by an earlier session
InitApp ==
    /\ StoreConstructed
    /\ PureIdle /\ RetryIdle /\ AppConstructed
    /\ remoteStream \in BOOLEAN

SpecApp == InitApp /\ [][NextApp]_vars

\* every request is answered or times out (axios timeout), and the event loop runs
\* the continuation of every settled request
AppFairness ==
    \A s \in StreamSlots :
        /\ WF_vars(ServeStatus(s)) /\ WF_vars(StatusSettled(s))
        /\ WF_vars(ServeStart(s)) /\ WF_vars(StartSettled(s))
        /\ WF_vars(ServeStop(s)) /\ WF_vars(StopSettled(s))

SpecAppFair == SpecApp /\ AppFairness

(***************************************************************************)
(* validateOverlay, applied to drafts                                      *)
(***************************************************************************)
DraftTypes == {"text", "logo", "video", Undefined}
DraftContents == {"hi", "", Undefined}
Xs == {Num(0 - 1), Num(0), Num(5), NaN, Str(5), Undef}
Ys == {Num(0), Num(0 - 1), NaN}
Widths == {Num(0), Num(1), Num(MaxWidth), Num(MaxWidth + 1), NaN, Str(100)}
Heights == {Num(MaxHeight), Num(MaxHeight + 1), Num(0), NaN}

DraftInputs ==
    [fn : {"validate"}, type : DraftTypes, content : DraftContents,
     position : {NoObject} \cup {Object(x, y) : x \in Xs, y \in Ys},
     size : {NoObject} \cup {Object(w, h) : w \in Widths, h \in Heights}]

\* validateOverlay(overlayData)
ValidateCall ==
    /\ given.fn = "validate" /\ returned = NoOutput
    /\ returned' = validateDraft(given)
    /\ UNCHANGED <<overlays, loading, error, mounted, calls, ops, server, nextId, clean, last,
                   budget, drag, given, retrying, app>>

InitValidate ==
    /\ StoreLoaded(0)
    /\ RetryIdle /\ AppConstructed /\ remoteStream = FALSE
    /\ given \in DraftInputs
    /\ returned = NoOutput

SpecValidate == InitValidate /\ [][ValidateCall]_vars

(***************************************************************************)
(* Properties of the store operations                                      *)
(***************************************************************************)
Range(seq) == {seq[i] : i \in DOMAIN seq}
Carries(o, p) == \A f \in DOMAIN p : o[f] = p[f]
RefetchEnded == last.ev \in {"fetchAll", "createReturn", "updateThrow", "deleteThrow"}

\* C1: when the PUT of update(id, patch) resolved, every local record with that id
\* carries the values of the patch, no other record changed, and the update sent no
\* fetchAll: its call is over with no request in flight.
C1_UpdateMergesPatch ==
    last.ev = "updateReturn" =>
        /\ Len(overlays) = Len(last.pre)
        /\ \A i \in DOMAIN overlays :
             IF last.pre[i]._id = last.id
             THEN overlays[i]._id = last.id /\ Carries(overlays[i], last.arg)
             ELSE overlays[i] = last.pre[i]
        /\ last.issued = {}
        /\ calls[last.slot] = NoCall

C1_Witness ==
    /\ last.ev = "updateReturn"
    /\ last.arg = [position |-> P50]
    /\ HasId(last.pre, last.id) /\ Get(last.pre, last.id).position = P10
    /\ Get(overlays, last.id).position = P50

\* C2: when the PUT of update(id, patch) was rejected, the handler sends a fetchAll
\* without touching the collection or surfacing anything, and the error is set and
\* rethrown only in the task in which that fetchAll has settled; when the fetchAll
\* returned a collection, the local collection is that collection.
C2_UpdateFailureRefetches ==
    /\ last.ev = "updateCatch" =>
         /\ last.issued = {"GET"}
         /\ calls[last.slot].http = "GET"
         /\ overlays = last.pre
         /\ error = Null
    /\ last.ev = "updateThrow" =>
         /\ last.fetched \in {"ok", "failed"}
         /\ last.fetched = "ok" => overlays = last.data
         /\ error # Null
         /\ last.ret = "throw"

C2_Witness ==
    /\ last.ev = "updateThrow"
    /\ last.fetched = "ok"
    /\ last.arg = [position |-> P50]
    /\ HasId(overlays, last.id)
    /\ Get(overlays, last.id).position = P10
    /\ overlays = last.data

\* C3: as soon as update(id, patch) has sent its PUT, and before any response, the
\* local record with that id carries the patch.
C3_PatchAppliedBeforeConfirmation ==
    (last.ev = "updateCall" /\ HasId(overlays, last.id)) =>
        /\ calls[last.slot].http = "PUT" /\ calls[last.slot].st = "req"
        /\ Carries(Get(overlays, last.id), last.arg)

\* C4: create with a draft that fails validation sends no request.
C4_InvalidDraftSendsNothing ==
    (last.ev = "createCall" /\ ~isValid(last.arg)) =>
        (last.issued = {} /\ calls[last.slot] = NoCall)

\* C5: when the POST of create resolved, the handler sends a fetchAll and writes
\* nothing to the collection; create returns only in the task in which that fetchAll
\* has settled, and then the local collection is the collection the fetchAll
\* returned (or, when the fetchAll failed, what it was).
C5_CreateRefetches ==
    /\ last.ev = "createFetch" =>
         /\ last.issued = {"GET"}
         /\ calls[last.slot].op = "create" /\ calls[last.slot].http = "GET"
         /\ overlays = last.pre
    /\ last.ev = "createReturn" =>
         /\ last.fetched \in {"ok", "failed"}
         /\ last.fetched = "ok" => overlays = last.data
         /\ last.fetched = "failed" => overlays = last.pre
         /\ last.ret = "response"

C5_Witness ==
    /\ last.ev = "createReturn"
    /\ last.fetched = "ok"
    /\ last.arg = GoodDraft
    /\ ~HasId(last.pre, Len(InitialServer) + 1)
    /\ HasId(overlays, Len(InitialServer) + 1)
    /\ overlays = server

\* C6: when the POST of create was rejected, the error is set, the error is rethrown,
\* the collection is what it was, and no request is sent; sending the POST did not
\* write the collection either.
C6_CreateFailureKeepsCollection ==
    /\ last.ev = "createCall" => overlays = last.pre
    /\ last.ev = "createThrow" =>
         /\ overlays = last.pre
         /\ last.issued = {}
         /\ calls[last.slot] = NoCall
         /\ error # Null
         /\ last.ret = "throw"

C6_Witness ==
    /\ last.ev = "createThrow"
    /\ overlays = InitialServer
    /\ error = "Failed to create overlay"

\* C7: when a fetchAll failed, the collection is what it was, the error is a
\* non-empty message and loading is false.
C7_FetchFailureKeepsCollection ==
    (RefetchEnded /\ last.fetched = "failed") =>
        /\ overlays = last.pre
        /\ error \notin {Null, Undefined, ""}
        /\ loading = FALSE

C7_Witness ==
    /\ last.ev = "fetchAll"
    /\ last.fetched = "failed"
    /\ overlays = InitialServer
    /\ error = "Failed to fetch overlays"

\* C8: a successful fetchAll leaves the local collection equal to the collection the
\* remote store returned (the remote store's own collection when nothing was mutated
\* since the request was sent), and a successful fetchAll that follows a successful
\* fetchAll with no mutation in between leaves the collection as it was.
C8_FetchReplacesAndRepeats ==
    (RefetchEnded /\ last.fetched = "ok") =>
        /\ overlays = last.data
        /\ clean => overlays = server
        /\ last.repeat => overlays = last.pre

C8_Witness ==
    /\ last.ev = "fetchAll"
    /\ last.fetched = "ok"
    /\ last.repeat
    /\ overlays = InitialServer

\* C9: when the DELETE resolved, the records with that id are gone, every other
\* record is kept as it was and in order, and no request is sent; when the DELETE
\* was rejected, the handler sends a fetchAll and removes nothing, and the error is
\* set and rethrown only in the task in which that fetchAll has settled.
C9_DeleteRemovesOrRefetches ==
    /\ last.ev = "deleteReturn" =>
         /\ ~HasId(overlays, last.id)
         /\ Range(overlays) = {o \in Range(last.pre) : o._id # last.id}
         /\ Len(overlays) = Cardinality({i \in DOMAIN last.pre : last.pre[i]._id # last.id})
         /\ last.issued = {}
         /\ calls[last.slot] = NoCall
    /\ last.ev = "deleteCatch" =>
         /\ last.issued = {"GET"}
         /\ calls[last.slot].http = "GET"
         /\ overlays = last.pre
    /\ last.ev = "deleteThrow" =>
         /\ last.fetched \in {"ok", "failed"}
         /\ last.fetched = "ok" => overlays = last.data
         /\ last.fetched = "failed" => overlays = last.pre
         /\ error # Null
         /\ last.ret = "throw"

C9_Witness ==
    /\ last.ev = "deleteReturn"
    /\ last.pre = InitialServer
    /\ last.id = 1
    /\ overlays = <<OverlayB>>

\* the value of field f of record o after the fulfilled updates of the batch
LastFulfilled(f, id) ==
    {i \in DOMAIN last.arg :
        /\ last.arg[i].id = id /\ last.settled[i] = "fulfilled" /\ f \in DOMAIN last.arg[i].data
        /\ \A j \in DOMAIN last.arg :
             (j > i /\ last.arg[j].id = id /\ last.settled[j] = "fulfilled")
                => f \notin DOMAIN last.arg[j].data}

\* C10: when batchUpdate returns, the aggregate has one outcome per update, in the
\* order of the updates, each the outcome of that update's request; a record named by
\* no fulfilled update is what it was, and a record named by fulfilled updates
\* carries their patches (the later one where two set the same field) and is
\* otherwise what it was; no record is added or removed.
C10_BatchMergesFulfilledOnly ==
    last.ev = "batchReturn" =>
        /\ Len(last.responses) = Len(last.arg)
        /\ \A i \in DOMAIN last.arg : last.responses[i].status = last.settled[i]
        /\ Len(overlays) = Len(last.pre)
        /\ \A k \in DOMAIN last.pre :
             LET id == last.pre[k]._id
                 named == {i \in DOMAIN last.arg :
                             last.arg[i].id = id /\ last.settled[i] = "fulfilled"}
             IN IF named = {}
                THEN overlays[k] = last.pre[k]
                ELSE \A f \in DOMAIN last.pre[k] :
                       IF f = "updated_at" THEN overlays[k][f] = "client"
                       ELSE IF LastFulfilled(f, id) = {} THEN overlays[k][f] = last.pre[k][f]
                       ELSE \A i \in LastFulfilled(f, id) : overlays[k][f] = last.arg[i].data[f]

C10_Witness ==
    /\ last.ev = "batchReturn"
    /\ last.pre = InitialServer
    /\ Len(last.arg) = 3
    /\ last.settled = <<"fulfilled", "rejected", "fulfilled">>
    /\ overlays[1].position = P50 /\ overlays[1].visible = FALSE
    /\ overlays[2] = OverlayB

\* C11: batchUpdate sends one request per element before any of them is answered, and
\* an element's request stays answerable whatever became of the others (a rejected
\* one neither blocks nor cancels another); when the batch returns, whatever was
\* rejected, it has sent no fetchAll, its call is over, the error state is what it
\* was and it returns the outcomes instead of throwing.
C11_BatchItemsIndependent ==
    /\ last.ev = "batchCall" =>
         /\ DOMAIN calls[last.slot].items = DOMAIN last.arg
         /\ \A i \in DOMAIN last.arg : calls[last.slot].items[i] = "req"
         /\ last.issued = {"PUT"}
    /\ \A s \in Slots :
         calls[s].http = "BATCH" =>
            \A i \in DOMAIN calls[s].arg :
               \/ calls[s].items[i] \in {"fulfilled", "rejected"}
               \/ calls[s].items[i] = "req" /\ ENABLED ServeBatchItem(s, i)
    /\ last.ev = "batchReturn" =>
         /\ last.issued = {}
         /\ calls[last.slot] = NoCall
         /\ \A s \in Slots : calls[s].http = "GET" => s # last.slot
         /\ error = last.preError
         /\ last.ret = "responses"

C11_Witness ==
    /\ last.ev = "batchReturn"
    /\ last.pre = InitialServer
    /\ last.settled = <<"fulfilled", "rejected">>
    /\ last.ret = "responses"
    /\ overlays[2].position = P50
    /\ error = Null /\ ~loading

\* C12: toggleVisibility(id) on a local record whose visible is true sends an update
\* of that id with the patch {visible: false} and writes nothing yet; when that
\* update's PUT resolved, every local record with that id has visible false and
\* every other field but updated_at as it was, and every other record is as it was.
C12_ToggleHidesOnlyThatRecord ==
    /\ (last.ev = "toggle" /\ HasId(last.pre, last.id)
            /\ IsTrue(Get(last.pre, last.id).visible)) =>
         /\ last.issued = {"PUT"}
         /\ calls[last.slot].http = "PUT" /\ calls[last.slot].id = last.id
         /\ calls[last.slot].arg = [visible |-> FALSE]
         /\ overlays = last.pre
    /\ (last.ev = "updateReturn" /\ last.via = "toggle" /\ last.arg = [visible |-> FALSE]) =>
         /\ Len(overlays) = Len(last.pre)
         /\ \A i \in DOMAIN last.pre :
              IF last.pre[i]._id = last.id
              THEN /\ DOMAIN overlays[i] = DOMAIN last.pre[i]
                   /\ overlays[i].visible = FALSE
                   /\ \A f \in DOMAIN last.pre[i] \ {"visible", "updated_at"} :
                        overlays[i][f] = last.pre[i][f]
              ELSE overlays[i] = last.pre[i]

C12_Witness ==
    /\ last.ev = "updateReturn" /\ last.via = "toggle"
    /\ last.id = 1
    /\ last.pre = InitialServer
    /\ overlays[1] = [OverlayA EXCEPT !.visible = FALSE, !.updated_at = "client"]
    /\ overlays[2] = OverlayB

\* C13: toggleVisibility(id) for an id the local collection does not hold returns
\* without sending a request, without changing the collection or the error state,
\* and without throwing.
C13_ToggleOfUnknownIdIsNoOp ==
    (last.ev = "toggle" /\ ~HasId(last.pre, last.id)) =>
        /\ last.issued = {}
        /\ ops = last.sent
        /\ overlays = last.pre
        /\ error = last.preError
        /\ last.ret = "return"

C13_Witness ==
    /\ last.ev = "toggle"
    /\ last.id = 9
    /\ overlays = InitialServer
    /\ last.issued = {}
    /\ ops = 1

\* a record within the bounds validateOverlay enforces
WithinBounds(o) ==
    /\ 0 < o.size.width /\ o.size.width <= MaxWidth
    /\ 0 < o.size.height /\ o.size.height <= MaxHeight
    /\ o.position.x >= 0 /\ o.position.y >= 0

\* C14: the remote records being within bounds when the page loads, every record of
\* the local collection keeps 0 < size.width <= 1920, 0 < size.height <= 1080,
\* position.x >= 0 and position.y >= 0 through the store's operations.
C14_LocalOverlaysWithinBounds ==
    \A i \in DOMAIN overlays : WithinBounds(overlays[i])

(***************************************************************************)
(* Properties of the drag controller                                       *)
(***************************************************************************)
\* the last task was a pointer-move that handed a position to update
Moved == last.ev = "mouseMove" /\ last.issued = {"PUT"}
\* the record that move dragged, and the geometry it read, in half pixels
MovedOverlay == Get(last.pre, last.id)
OverlayWidth == Px(MovedOverlay.size.width)
OverlayHeight == Px(MovedOverlay.size.height)
UnclampedX == last.e.clientX - last.rect.left - last.drag.offset.x
UnclampedY == last.e.clientY - last.rect.top - last.drag.offset.y
IssuedX == Px(last.arg.position.x)
IssuedY == Px(last.arg.position.y)
Fits == OverlayWidth <= last.rect.width /\ OverlayHeight <= last.rect.height

\* C15 as stated: on every pointer-move of a drag in which the overlay fits in the
\* container, the position handed to update has 0 <= x <= containerWidth -
\* overlayWidth and 0 <= y <= containerHeight - overlayHeight, and is the unclamped
\* value pointer - containerOrigin - dragOffset whenever that is already in range.
C15_ClampLaw ==
    (Moved /\ Fits) =>
        /\ 0 <= IssuedX /\ IssuedX <= last.rect.width - OverlayWidth
        /\ 0 <= IssuedY /\ IssuedY <= last.rect.height - OverlayHeight
        /\ (0 <= UnclampedX /\ UnclampedX <= last.rect.width - OverlayWidth)
              => IssuedX = UnclampedX
        /\ (0 <= UnclampedY /\ UnclampedY <= last.rect.height - OverlayHeight)
              => IssuedY = UnclampedY

\* the value in [0, max] nearest to new
Nearest(new, max) == IF new < 0 THEN 0 ELSE IF new > max THEN max ELSE new

\* C15, amended: on every pointer-move of a drag in which the overlay fits in the
\* container, the position handed to update is the clamped value rounded to the
\* nearest integer, a half going up: x is at least 0 and less than half a pixel
\* away from the clamped value wherever that is not a whole number, so at most half
\* a pixel above containerWidth - overlayWidth; it is the unclamped value exactly
\* when that is in range and a whole number; likewise for y.
C15_ClampLawRounded ==
    (Moved /\ Fits) =>
        LET maxX == last.rect.width - OverlayWidth
            maxY == last.rect.height - OverlayHeight
        IN /\ last.arg.position.x = MathRound(Nearest(UnclampedX, maxX))
           /\ last.arg.position.y = MathRound(Nearest(UnclampedY, maxY))
           /\ 0 <= IssuedX /\ IssuedX <= maxX + 1
           /\ 0 <= IssuedY /\ IssuedY <= maxY + 1
           /\ (0 <= UnclampedX /\ UnclampedX <= maxX /\ UnclampedX % 2 = 0)
                 => IssuedX = UnclampedX
           /\ (0 <= UnclampedY /\ UnclampedY <= maxY /\ UnclampedY % 2 = 0)
                 => IssuedY = UnclampedY
           /\ (maxX % 2 = 0) => IssuedX <= maxX
           /\ (maxY % 2 = 0) => IssuedY <= maxY

C15_Witness ==
    /\ Moved /\ Fits
    /\ last.rect = Fractional
    /\ UnclampedX > last.rect.width - OverlayWidth
    /\ last.arg.position.x = 601
    /\ last.arg.position.y = 60

\* C16: after any pointer-move of a drag the whole overlay box lies within the
\* container (x >= 0, y >= 0, x + overlayWidth <= containerWidth, y + overlayHeight
\* <= containerHeight); where the overlay is wider (taller) than the container the
\* issued x (y) is 0.
C16_BoxStaysInside ==
    Moved =>
        /\ IF OverlayWidth <= last.rect.width
           THEN 0 <= IssuedX /\ IssuedX + OverlayWidth <= last.rect.width
           ELSE last.arg.position.x = 0
        /\ IF OverlayHeight <= last.rect.height
           THEN 0 <= IssuedY /\ IssuedY + OverlayHeight <= last.rect.height
           ELSE last.arg.position.y = 0

\* C17 as stated: the controller is Idle or Dragging; pointer-down records the
\* overlay's id and the pointer's offset inside its box and enters Dragging;
\* pointer-up or pointer-leave returns to Idle, with the dragged id null, isDragging
\* false and no offset of the finished drag retained.
C17_NoDragStatePersists ==
    /\ isDragging <=> draggedOverlay # NoOverlay
    /\ last.ev = "mouseDown" =>
         /\ draggedOverlay = last.id /\ isDragging
         /\ dragOffset = [x |-> last.e.clientX - OverlayRect(MovedOverlay, last.rect).left,
                          y |-> last.e.clientY - OverlayRect(MovedOverlay, last.rect).top]
    /\ last.ev \in {"mouseUp", "mouseLeave"} =>
         /\ draggedOverlay = NoOverlay /\ ~isDragging
         /\ dragOffset = [x |-> 0, y |-> 0]

\* C17, amended: the controller is Idle or Dragging; pointer-down records the
\* overlay's id and the pointer's offset inside its box and enters Dragging;
\* pointer-up or pointer-leave returns to Idle from any state, with the dragged id
\* null and isDragging false, while the offset stays what it was (the offset of the
\* finished drag is retained until the next pointer-down replaces it).
C17_DragStateMachine ==
    /\ isDragging <=> draggedOverlay # NoOverlay
    /\ last.ev = "mouseDown" =>
         /\ draggedOverlay = last.id /\ isDragging
         /\ dragOffset = [x |-> last.e.clientX - OverlayRect(MovedOverlay, last.rect).left,
                          y |-> last.e.clientY - OverlayRect(MovedOverlay, last.rect).top]
         /\ 0 <= dragOffset.x /\ dragOffset.x <= OverlayWidth
         /\ 0 <= dragOffset.y /\ dragOffset.y <= OverlayHeight
    /\ last.ev \in {"mouseUp", "mouseLeave"} =>
         /\ draggedOverlay = NoOverlay /\ ~isDragging
         /\ dragOffset = last.drag.offset

C17_Witness ==
    /\ last.ev = "mouseLeave"
    /\ last.drag.dragging /\ last.drag.id = 1
    /\ draggedOverlay = NoOverlay /\ ~isDragging
    /\ dragOffset = [x |-> Px(130), y |-> Px(10)]

\* C18: a pointer-move with no active drag, or with a dragged id the collection no
\* longer holds, sends no request and changes neither the collection, the error
\* state nor the drag state; so every move of a drag whose overlay is gone does
\* nothing, the first and the ones after it.
C18_MoveWithoutTargetIsNoOp ==
    (/\ last.ev = "mouseMove"
     /\ \/ last.drag.id = NoOverlay
        \/ ~last.drag.dragging
        \/ ~HasId(last.pre, last.drag.id)) =>
        /\ last.issued = {}
        /\ ops = last.sent
        /\ overlays = last.pre
        /\ error = last.preError
        /\ DragState = last.drag

C18_Witness ==
    /\ last.ev = "mouseMove"
    /\ last.drag.dragging /\ last.drag.id = 1
    /\ ~HasId(overlays, 1) /\ HasId(overlays, 2)
    /\ isDragging /\ draggedOverlay = 1
    /\ last.issued = {}
    /\ \A s \in Slots : calls[s] = NoCall

(***************************************************************************)
(* Properties of operations in flight together                             *)
(***************************************************************************)
\* no request is in flight and no handler is waiting to run
Quiet == \A s \in Slots : calls[s] = NoCall
\* two collections hold the same records but for the stamps
Unstamped(o) == [f \in DOMAIN o \ {"updated_at"} |-> o[f]]
SameRecords(a, b) == Len(a) = Len(b) /\ \A i \in DOMAIN a : Unstamped(a[i]) = Unstamped(b[i])

\* C19: when the fetchAll that reconciles a failed update or delete has returned the
\* remote collection and nothing else is in flight any more, the local collection
\* is the remote collection, whatever the order in which the requests reached the
\* remote store and the responses reached the client.
C19_ReconcilingFetchConverges ==
    (last.ev \in {"updateThrow", "deleteThrow"} /\ last.fetched = "ok" /\ Quiet) =>
        SameRecords(overlays, server)

\* C20: whenever the PUT of an update resolved, the local record carries that
\* update's patch, whether the update was issued before or after the other updates
\* of the record and whatever they had written: the response that arrives last
\* decides.  A request that was sent stays in flight, unchanged, until it is answered:
\* none is cancelled.
C20_LastResponseWins ==
    /\ [](last.ev = "updateReturn" =>
            /\ calls[last.slot] = NoCall
            /\ \A i \in DOMAIN overlays :
                 overlays[i]._id = last.id => Carries(overlays[i], last.arg))
    /\ [][\A s \in Slots :
            calls[s].st = "req" =>
               /\ calls'[s].st \in {"req", "ok", "fail"}
               /\ calls'[s].http = calls[s].http
               /\ calls'[s].id = calls[s].id
               /\ calls'[s].arg = calls[s].arg]_vars

\* the update issued first is answered last: the local record ends with its patch,
\* the remote record with the other one
C20_Witness ==
    /\ last.ev = "updateReturn"
    /\ last.slot = 2 /\ ops = 3 /\ Quiet
    /\ error = Null
    /\ last.id = 1 /\ last.arg = [position |-> P50]
    /\ Get(last.pre, 1).position = P0
    /\ Get(server, 1).position = P0
    /\ Get(overlays, 1).position = P50

\* C21: the loading indicator is set for as long as a fetchAll is pending: whenever
\* the GET of a fetchAll has been sent and not yet answered, loading is true (also
\* when two fetchAll calls overlap).
C21_LoadingWhileFetchPending ==
    \A s \in Slots : (calls[s].http = "GET" /\ calls[s].st = "req") => loading

\* C23: fetchAll is the first request of the store (nothing is sent before the
\* initial load, which sends the GET), and a failed create, a failed update and a
\* failed delete each send a fetchAll from their catch.
C23_RefetchAfterEveryFailure ==
    /\ ~mounted => (Quiet /\ ops = 0)
    /\ last.ev = "mount" => (last.issued = {"GET"} /\ last.slot = 1)
    /\ last.ev \in {"createThrow", "updateCatch", "deleteCatch"} => last.issued = {"GET"}

\* the ids of a collection, in its order
IdSeq(seq) == [i \in DOMAIN seq |-> seq[i]._id]
UniqueIds(seq) == \A i, j \in DOMAIN seq : seq[i]._id = seq[j]._id => i = j

\* C25: no two local records have the same id, in every reachable state (the remote
\* store lists each id once), and when an update or a batchUpdate has merged its
\* patches the records carry, place by place, the ids they carried before.
C25_IdsUnique ==
    /\ UniqueIds(server)
    /\ \A s \in Slots : UniqueIds(calls[s].got)
    /\ UniqueIds(overlays)
    /\ last.ev \in {"updateReturn", "batchReturn"} => IdSeq(overlays) = IdSeq(last.pre)

\* a second fetchAll has replaced a loaded collection and a create has gone through
C25_Witness ==
    /\ last.ev = "createReturn" /\ last.fetched = "ok"
    /\ Len(overlays) = Len(InitialServer) + 1
    /\ IdSeq(overlays) = <<1, 2, 3>>

\* C26: when two toggleVisibility calls on record 1 (visible at first) have both
\* resolved, nothing has failed and nothing is in flight, the record is visible
\* again, whether the second call was issued after the first returned or while its
\* request was in flight.
C26_TwoTogglesRestore ==
    (Quiet /\ ops = 1 + 2 /\ error = Null /\ last.via = "toggle"
       /\ last.ev = "updateReturn" /\ last.id = 1
       /\ Len(overlays) = 2 /\ overlays[2] = OverlayB
       /\ Get(last.pre, 1).updated_at = "client") =>
        IsTrue(Get(overlays, 1).visible)

\* C27: when the update of a toggleVisibility(id) resolved, the record is counted
\* visible (by getVisibleOverlays and by the renderer: visible is not false) exactly
\* when it was not counted visible before.
C27_ToggleFlipsEffectiveVisibility ==
    (last.ev = "updateReturn" /\ last.via = "toggle" /\ HasId(last.pre, last.id)) =>
        Rendered(Get(overlays, last.id)) # Rendered(Get(last.pre, last.id))

\* C28: when the PUT of an update resolved, the collection has as many records as
\* before and every record with another id is what it was; when a DELETE resolved,
\* the collection is what it was without the records of that id; and in either case
\* a collection that did not hold the id (any more) is unchanged.
C28_ResponsesTouchOnlyTheirRecord ==
    /\ last.ev = "updateReturn" =>
         /\ Len(overlays) = Len(last.pre)
         /\ \A i \in DOMAIN last.pre : last.pre[i]._id # last.id => overlays[i] = last.pre[i]
         /\ ~HasId(last.pre, last.id) => overlays = last.pre
    /\ last.ev = "deleteReturn" =>
         /\ overlays = SelectSeq(last.pre, LAMBDA o : o._id # last.id)
         /\ ~HasId(last.pre, last.id) => overlays = last.pre

\* the response of an update arrives after the record was deleted locally
C28_Witness ==
    /\ last.ev = "updateReturn" /\ last.id = 1
    /\ ~HasId(last.pre, 1)
    /\ last.pre = <<OverlayB>>
    /\ overlays = <<OverlayB>>

(***************************************************************************)
(* Properties of the pure functions                                        *)
(***************************************************************************)
\* a message that is there: a string that is not empty
HasMessage(v) == v # Undefined /\ v # ""

\* C22: the extracted message is the server's structured message when the response
\* carries one, otherwise the transport error's own message when it has one,
\* otherwise the default of the caller (the built-in default when the caller
\* supplied none).
C22_ErrorMessagePriority ==
    returned.fn = "handleError" =>
        LET e == given.error
        IN /\ HasMessage(e.response) => returned.value = e.response
           /\ (~HasMessage(e.response) /\ HasMessage(e.message)) => returned.value = e.message
           /\ (~HasMessage(e.response) /\ ~HasMessage(e.message)) =>
                 returned.value = IF given.defaultMessage # Undefined
                                  THEN given.defaultMessage ELSE "An error occurred"

\* a response without structured message: the transport's message wins over the default
C22_Witness ==
    /\ returned.fn = "handleError"
    /\ given.error = [response |-> Undefined, message |-> "Network Error"]
    /\ given.defaultMessage = "Failed to fetch overlays"
    /\ returned.value = "Network Error"

\* the conditions on a draft, field by field
IsNumber(j) == j.t = "number"
TypeOk(d) == d.type \in {"text", "logo"}
ContentOk(d) == HasMessage(d.content)
PositionOk(d) ==
    /\ d.position.present
    /\ IsNumber(d.position.a) /\ d.position.a.v >= 0
    /\ IsNumber(d.position.b) /\ d.position.b.v >= 0
SizeOk(d) ==
    /\ d.size.present
    /\ IsNumber(d.size.a) /\ 0 < d.size.a.v /\ d.size.a.v <= 1920
    /\ IsNumber(d.size.b) /\ 0 < d.size.b.v /\ d.size.b.v <= 1080

\* C24: validate(draft) leaves the store as it is and sends nothing; it reports valid
\* exactly when type is text or logo, content is not empty, position.x and
\* position.y are numbers >= 0 and size is within (0,1920] x (0,1080]; otherwise the
\* map has an entry for exactly the violated fields.
C24_ValidateIsExact ==
    returned.fn = "validate" =>
        /\ overlays = InitialServer /\ Quiet /\ ops = 1 /\ error = Null /\ ~loading
        /\ returned.isValid <=> (TypeOk(given) /\ ContentOk(given) /\ PositionOk(given)
                                   /\ SizeOk(given))
        /\ ("type" \in returned.errors) <=> ~TypeOk(given)
        /\ ("content" \in returned.errors) <=> ~ContentOk(given)
        /\ ("position" \in returned.errors) <=> ~PositionOk(given)
        /\ ("size" \in returned.errors) <=> ~SizeOk(given)

(***************************************************************************)
(* Properties of apiUtils.retry                                            *)
(***************************************************************************)
\* the calls of apiCall made so far: the settled ones and the one awaited
Invoked == Len(invocations) + (IF retryPhase = "calling" THEN 1 ELSE 0)
RetryOver == retryPhase \in {"returned", "thrown"}

\* C29: retry(apiCall, maxRetries) calls apiCall at most maxRetries times and comes
\* to an end.  It returns the first response and calls nothing after it; an
\* error whose response has a status in 400..499 is rethrown at once, with no
\* further call; and when all maxRetries calls failed otherwise, the error of the
\* last one is thrown.
C29_RetryTerminates ==
    /\ [](Invoked <= maxRetries)
    /\ [](\A k \in DOMAIN invocations :
            (invocations[k].ok \/ ClientError(invocations[k])) =>
               /\ k = Len(invocations) /\ RetryOver
               /\ retryOut = IF invocations[k].ok THEN Returns(invocations[k])
                             ELSE Throws(invocations[k]))
    /\ []((retryPhase = "returned") =>
             (invocations # <<>> /\ invocations[Len(invocations)].ok))
    /\ []((retryPhase = "thrown" /\ invocations # <<>>) =>
             /\ retryOut = Throws(invocations[Len(invocations)])
             /\ ~ClientError(invocations[Len(invocations)]) =>
                   Len(invocations) = maxRetries)
    /\ [][RetryOver => UNCHANGED retrying]_vars
    /\ (retryPhase # "idle") ~> RetryOver

\* three calls: two failed with a server error and no response, the third returned
C29_Witness ==
    /\ retryPhase = "returned"
    /\ maxRetries = 3 /\ Len(invocations) = 3
    /\ invocations[1].status = 500 /\ ~invocations[2].response
    /\ retryOut = Returns(Outcome(TRUE, TRUE, 200, 3))

(***************************************************************************)
(* Properties of App                                                       *)
(***************************************************************************)
\* C30: after goBackToLanding while a stream is active, the landing view is
\* eventually displayed, whether the stop request it sent succeeds or fails; and
\* when a stop request has completed the stream loading flag is false.
C30_GoBackReachesLanding ==
    /\ \A s \in StreamSlots :
         (streamCalls[s].op = "stop" /\ streamCalls[s].via = "goBack") ~> LandingDisplayed
    /\ [](last.ev = "stopSettled" => ~streamLoading)

====
